---- MODULE Spec2Model ----
(***************************************************************************)
(* Traffic classification and auth-material extraction of unbrowse's       *)
(* native module: parse_har (parser/har.rs), its filters                   *)
(* (parser/filters.rs) and generate_auth_json (auth/extractor.rs).         *)
(*                                                                         *)
(* Strings are TLA+ strings; prefix, suffix and substring tests, case      *)
(* folding, trimming and replacement are computed character by character.  *)
(* A Rust Option is None or the value; a HashMap is a function whose       *)
(* DOMAIN is the key set; a HashSet is a set.  The iteration order of a    *)
(* HashMap or HashSet is not fixed by the program (std's RandomState       *)
(* seeds every process differently), so every "first element in iteration *)
(* order" is a choice among all the elements that could come first.        *)
(***************************************************************************)
EXTENDS Integers, Sequences, FiniteSets, TLC

\* ------------------------------------------------------------------------
\* Bounds of the model
\* ------------------------------------------------------------------------
\* longest capture (har.log.entries) over all the exchanges
MaxEntries == 2
\* longest capture over the exchanges that can be accepted
MaxCoreEntries == 3
\* longest capture handed to parse_har twice
MaxTwiceEntries == 2
\* most labels in a domain handed to derive_service_name
MaxLabels == 3
\* most entries of a header map handed to an exported function
MaxHeaders == 2
\* most entries of a cookie map handed to an exported function
MaxCookies == 2
\* most entries of an auth-info map handed to generate_auth_json
MaxInfo == 1
\* longest capture of a document handed to extract_refresh_config
MaxDocEntries == 2
\* most requests the browser hands to extract_browser_auth
MaxBrowserRequests == 2
\* longest batch handed to parse_har by one of several threads
MaxParEntries == 2
\* most threads inside parse_har besides the running one
MaxParked == 1

\* ------------------------------------------------------------------------
\* Strings (Rust str methods used by the source)
\* ------------------------------------------------------------------------
\* Option<T>: None, or Some(x) whose value is Val(o)
None == <<>>
Some(x) == <<x>>
Val(o) == o[1]

\* s[i..j], 1-based and inclusive; "" when j < i
Sub(s, i, j) == IF j < i THEN "" ELSE SubSeq(s, i, j)

\* str::starts_with
StartsWith(s, p) == Len(p) <= Len(s) /\ Sub(s, 1, Len(p)) = p

\* str::ends_with
EndsWith(s, p) == Len(p) <= Len(s) /\ Sub(s, Len(s) - Len(p) + 1, Len(s)) = p

\* str::contains
Contains(s, p) ==
  \E i \in 1..(Len(s) - Len(p) + 1) : Sub(s, i, i + Len(p) - 1) = p

\* str::find: 1-based index of the first occurrence of p in s, 0 when absent
Find(s, p) ==
  IF Contains(s, p)
  THEN CHOOSE i \in 1..(Len(s) - Len(p) + 1) :
         /\ Sub(s, i, i + Len(p) - 1) = p
         /\ \A j \in 1..(i - 1) : Sub(s, j, j + Len(p) - 1) # p
  ELSE 0

LowerChar(c) ==
  CASE c = "A" -> "a" [] c = "B" -> "b" [] c = "C" -> "c" [] c = "D" -> "d"
    [] c = "E" -> "e" [] c = "F" -> "f" [] c = "G" -> "g" [] c = "H" -> "h"
    [] c = "I" -> "i" [] c = "J" -> "j" [] c = "K" -> "k" [] c = "L" -> "l"
    [] c = "M" -> "m" [] c = "N" -> "n" [] c = "O" -> "o" [] c = "P" -> "p"
    [] c = "Q" -> "q" [] c = "R" -> "r" [] c = "S" -> "s" [] c = "T" -> "t"
    [] c = "U" -> "u" [] c = "V" -> "v" [] c = "W" -> "w" [] c = "X" -> "x"
    [] c = "Y" -> "y" [] c = "Z" -> "z" [] OTHER -> c

RECURSIVE ToLower(_)
\* str::to_lowercase (ASCII letters)
ToLower(s) ==
  IF s = "" THEN ""
  ELSE LowerChar(Sub(s, 1, 1)) \o ToLower(Sub(s, 2, Len(s)))

RECURSIVE TrimStartMatches(_, _)
\* str::trim_start_matches: removes the prefix p as long as it is there
TrimStartMatches(s, p) ==
  IF p # "" /\ StartsWith(s, p)
  THEN TrimStartMatches(Sub(s, Len(p) + 1, Len(s)), p)
  ELSE s

RECURSIVE ReplaceChar(_, _, _)
\* str::replace for a one-character pattern
ReplaceChar(s, c, r) ==
  IF s = "" THEN ""
  ELSE (IF Sub(s, 1, 1) = c THEN r ELSE Sub(s, 1, 1))
         \o ReplaceChar(Sub(s, 2, Len(s)), c, r)

RECURSIVE Split(_, _)
\* str::split on a one-character separator, collected into a Vec
Split(s, c) ==
  LET k == Find(s, c) IN
    IF k = 0 THEN <<s>>
    ELSE <<Sub(s, 1, k - 1)>> \o Split(Sub(s, k + 1, Len(s)), c)

RECURSIVE Join(_, _)
\* [&str]::join
Join(parts, sep) ==
  IF Len(parts) = 0 THEN ""
  ELSE IF Len(parts) = 1 THEN parts[1]
  ELSE parts[1] \o sep \o Join(Tail(parts), sep)

\* ------------------------------------------------------------------------
\* Knowledge base (parser/filters.rs)
\* ------------------------------------------------------------------------
\* filters.rs:9-15
STATIC_EXTS ==
  {
    ".css", ".js", ".png", ".jpg", ".jpeg", ".gif", ".svg", ".webp", ".woff",
    ".woff2", ".ico", ".map", ".ttf", ".eot", ".otf", ".mp4", ".webm",
    ".mp3", ".wav", ".ogg"
  }

\* filters.rs:18-80
SKIP_DOMAINS ==
  {
    "google-analytics.com", "analytics.google.com",
    "www.google-analytics.com", "mixpanel.com", "api-js.mixpanel.com",
    "mparticle.com", "jssdks.mparticle.com", "segment.io", "segment.com",
    "cdn.segment.com", "api.segment.io", "amplitude.com",
    "api.amplitude.com", "heap.io", "heapanalytics.com", "posthog.com",
    "i.posthog.com", "eu.i.posthog.com", "us.i.posthog.com", "plausible.io",
    "matomo.org", "stats.wp.com", "doubleclick.net", "googletagmanager.com",
    "googlesyndication.com", "facebook.com", "instagram.com",
    "connect.facebook.net", "appsflyer.com", "wa.appsflyer.com",
    "intentiq.com", "api.intentiq.com", "id5-sync.com",
    "diagnostics.id5-sync.com", "33across.com", "btloader.com",
    "api.btloader.com", "hbwrapper.com", "criteo.com", "criteo.net",
    "taboola.com", "outbrain.com", "stripe.com", "js.stripe.com",
    "r.stripe.com", "m.stripe.com", "paypal.com", "braintreegateway.com",
    "adyen.com", "intercom.io", "api-iam.intercom.io", "widget.intercom.io",
    "zendesk.com", "freshdesk.com", "drift.com", "crisp.chat", "hotjar.com",
    "script.hotjar.com", "clarity.ms", "sentry.io", "logrocket.io",
    "smartlook.com", "mouseflow.com", "cdn.jsdelivr.net", "unpkg.com",
    "cdnjs.cloudflare.com", "ajax.googleapis.com", "code.jquery.com",
    "onetrust.com", "geolocation.onetrust.com", "cookielaw.org",
    "cdn.cookielaw.org", "trustarc.com", "evidon.com", "accounts.google.com",
    "play.google.com", "stack-auth.com", "api.stack-auth.com", "auth0.com",
    "okta.com", "onelogin.com", "ping.com", "cdn-cgi",
    "challenges.cloudflare.com", "analytics.tiktok.com",
    "analytics-sg.tiktok.com", "mon.tiktokv.com", "mcs.tiktokw.com",
    "lf16-tiktok-web.tiktokcdn-us.com", "www.googletagmanager.com",
    "www.google.com", "google.com", "fonts.googleapis.com",
    "fonts.gstatic.com", "maps.googleapis.com", "www.gstatic.com",
    "apis.google.com", "ssl.gstatic.com", "pagead2.googlesyndication.com",
    "adservice.google.com", "translate.googleapis.com",
    "firebaseinstallations.googleapis.com", "graph.facebook.com",
    "www.facebook.com", "pixel.facebook.com", "platform.twitter.com",
    "syndication.twitter.com", "analytics.twitter.com", "newrelic.com",
    "nr-data.net", "bam.nr-data.net", "fullstory.com", "rs.fullstory.com",
    "launchdarkly.com", "app.launchdarkly.com", "datadoghq.com",
    "browser-intake-datadoghq.com", "bugsnag.com", "sessions.bugsnag.com",
    "rollbar.com", "raygun.io", "trackjs.com", "recaptcha.net",
    "hcaptcha.com", "branch.io", "app.link", "adjust.com", "kochava.com",
    "applovin.com", "unity3d.com", "chartboost.com"
  }

\* filters.rs:83-104
AUTH_HEADER_NAMES ==
  {
    "authorization", "x-api-key", "api-key", "apikey", "x-auth-token",
    "access-token", "x-access-token", "token", "x-token", "authtype",
    "mudra", "bearer", "jwt", "x-jwt", "x-jwt-token", "id-token", "id_token",
    "x-id-token", "refresh-token", "x-refresh-token", "x-apikey", "x-key",
    "key", "secret", "x-secret", "api-secret", "x-api-secret",
    "client-secret", "x-client-secret", "session", "session-id", "sessionid",
    "x-session", "x-session-id", "x-session-token", "session-token", "csrf",
    "x-csrf", "x-csrf-token", "csrf-token", "x-xsrf-token", "xsrf-token",
    "x-oauth-token", "oauth-token", "x-oauth", "oauth",
    "x-amz-security-token", "x-amz-access-token", "x-goog-api-key",
    "x-rapidapi-key", "ocp-apim-subscription-key", "x-functions-key",
    "x-auth", "x-authentication", "x-authorization", "x-user-token",
    "x-app-token", "x-client-token", "x-access-key", "x-secret-key",
    "x-signature", "x-request-signature", "signature"
  }

\* filters.rs:107-113
AUTH_HEADER_PATTERNS ==
  {
    "auth", "token", "key", "secret", "bearer", "jwt", "session",
    "credential", "password", "signature", "sign", "api-", "apikey",
    "access", "oauth", "csrf", "xsrf"
  }

\* filters.rs:116-125
STANDARD_HEADERS ==
  {
    "x-requested-with", "x-forwarded-for", "x-forwarded-host",
    "x-forwarded-proto", "x-real-ip", "x-frame-options",
    "x-content-type-options", "x-xss-protection", "x-ua-compatible",
    "x-dns-prefetch-control", "x-download-options",
    "x-permitted-cross-domain-policies", "x-powered-by", "x-request-id",
    "x-correlation-id", "x-trace-id", "x-amz-cf-id", "x-amz-cf-pop",
    "x-cache", "x-cache-hits"
  }

\* filters.rs:128-134
CONTEXT_HEADER_NAMES ==
  {
    "outletid", "userid", "supplierid", "companyid", "tenantid",
    "organizationid", "accountid", "workspaceid", "projectid", "x-tenant-id",
    "x-org-id", "x-workspace-id"
  }

\* filters.rs:137-144
SKIP_PATHS ==
  {
    "/cdn-cgi/", "/_next/data/", "/__nextjs", "/sockjs-node/", "/favicon",
    "/manifest.json", "/robots.txt", "/sitemap", "/.well-known/",
    "/apple-app-site-association", "/service-worker", "/sw.js", "/workbox-"
  }

\* is_auth_like_header
is_auth_like_header(name) ==
  LET lower == ToLower(name) IN
    \/ lower \in AUTH_HEADER_NAMES
    \/ \E p \in AUTH_HEADER_PATTERNS : Contains(lower, p)

\* is_standard_header
is_standard_header(name) == ToLower(name) \in STANDARD_HEADERS

\* a test that takes no header for a pseudo-header
is_http2_pseudo_header_none(name) == FALSE

\* is_http2_pseudo_header
is_http2_pseudo_header(name) == StartsWith(name, ":")

\* is_skipped_domain
is_skipped_domain(domain) ==
  LET lower == ToLower(domain) IN
    \E skip \in SKIP_DOMAINS : Contains(lower, skip)

\* is_html_content_type without the case folding
is_html_content_type_cased(content_type) ==
  Contains(content_type, "text/html")
    \/ Contains(content_type, "application/xhtml")

\* is_html_content_type
is_html_content_type(content_type) ==
  LET ct == ToLower(content_type) IN
    Contains(ct, "text/html") \/ Contains(ct, "application/xhtml")

\* the URL markers of is_api_like
API_URL_MARKERS ==
  { "/api/", "/services/", "/v1/", "/v2/", "/v3/", "/graphql", "/order",
    "/quote", "/swap", "/tokens", "/markets", "/user", "/auth", "/account",
    "/profile", "/data", "/query", "/mutation", "/rpc" }

\* is_api_like; content_type is an Option
is_api_like(url_str, method, domain, content_type) ==
  \/ /\ content_type # None
     /\ (Contains(Val(content_type), "application/json")
           \/ Contains(Val(content_type), "text/json"))
  \/ LET url_lower == ToLower(url_str) IN
       \E m \in API_URL_MARKERS : Contains(url_lower, m)
  \/ method \in {"POST", "PUT", "DELETE", "PATCH"}
  \/ Contains(domain, "api.")
  \/ Contains(domain, "service")
  \/ Contains(domain, "quote")
  \/ StartsWith(domain, "dev-")
  \/ StartsWith(domain, "staging-")

\* get_root_domain
get_root_domain(domain) ==
  LET parts == Split(domain, ".") IN
    IF Len(parts) >= 2
    THEN Join(SubSeq(parts, Len(parts) - 1, Len(parts)), ".")
    ELSE domain

\* is_same_root_domain
is_same_root_domain(domain1, domain2) ==
  get_root_domain(domain1) = get_root_domain(domain2)

\* the alternatives of the regex in derive_service_name
TLDS ==
  { "com", "org", "net", "co", "io", "ai", "app", "sg", "dev", "xyz", "gg",
    "fm", "tv", "me", "so", "to" }

\* Regex \.(com|org|...|to)\.?$ replaced by "": the regex is anchored at the
\* end, so it matches at most once, a "." followed by one alternative and
\* an optional final "."
StripTld(name) ==
  LET body == IF EndsWith(name, ".") THEN Sub(name, 1, Len(name) - 1)
              ELSE name
      hit(s) == {t \in TLDS : EndsWith(s, "." \o t)}
  IN  IF hit(name) # {}
      THEN Sub(name, 1, Len(name) - Len(CHOOSE t \in hit(name) : TRUE) - 1)
      ELSE IF hit(body) # {}
      THEN Sub(body, 1, Len(body) - Len(CHOOSE t \in hit(body) : TRUE) - 1)
      ELSE name

\* derive_service_name removing each prefix at most once (strip_prefix)
derive_service_name_once(domain) ==
  LET strip(s, p) == IF StartsWith(s, p) THEN Sub(s, Len(p) + 1, Len(s))
                     ELSE s
      t4 == strip(strip(strip(strip(domain, "www."), "api."), "app."), "m.")
      name == ToLower(ReplaceChar(StripTld(t4), ".", "-"))
  IN  IF name = "" THEN "unknown-api" ELSE name

\* derive_service_name
derive_service_name(domain) ==
  LET t1 == TrimStartMatches(domain, "www.")
      t2 == TrimStartMatches(t1, "api.")
      t3 == TrimStartMatches(t2, "app.")
      t4 == TrimStartMatches(t3, "m.")
      name == ToLower(ReplaceChar(StripTld(t4), ".", "-"))
  IN  IF name = "" THEN "unknown-api" ELSE name

\* ------------------------------------------------------------------------
\* url::Url::parse as parse_har and is_static_asset use it: scheme, host_str
\* and path of an absolute URL; a string without a scheme is an error
\* ------------------------------------------------------------------------
\* index of the first character of s that is in chars, Len(s) + 1 when none
FindAny(s, chars) ==
  IF \E i \in 1..Len(s) : Sub(s, i, i) \in chars
  THEN CHOOSE i \in 1..Len(s) :
         /\ Sub(s, i, i) \in chars
         /\ \A j \in 1..(i - 1) : Sub(s, j, j) \notin chars
  ELSE Len(s) + 1

RECURSIVE AfterLast(_, _)
\* the part of s after the last occurrence of the character c
AfterLast(s, c) ==
  LET k == Find(s, c) IN
    IF k = 0 THEN s ELSE AfterLast(Sub(s, k + 1, Len(s)), c)

SchemeChars ==
  { "a", "b", "c", "d", "e", "f", "g", "h", "i", "j", "k", "l", "m", "n",
    "o", "p", "q", "r", "s", "t", "u", "v", "w", "x", "y", "z", "+", "-",
    ".", "0", "1", "2", "3", "4", "5", "6", "7", "8", "9" }

\* Ok(url) is Some([scheme, host, path]) with host an Option; Err is None
UrlParse(url_str) ==
  LET k      == Find(url_str, ":")
      scheme == ToLower(Sub(url_str, 1, k - 1))
      rest   == Sub(url_str, k + 1, Len(url_str))
      hier   == Sub(rest, 3, Len(rest))
      aEnd   == FindAny(hier, {"/", "?", "#"})
      auth   == AfterLast(Sub(hier, 1, aEnd - 1), "@")
      host   == ToLower(Sub(auth, 1, FindAny(auth, {":"}) - 1))
      tail   == Sub(hier, aEnd, Len(hier))
      path   == Sub(tail, 1, FindAny(tail, {"?", "#"}) - 1)
  IN  IF k < 2 \/ \E i \in 1..(k - 1) : Sub(scheme, i, i) \notin SchemeChars
      THEN None
      ELSE IF StartsWith(rest, "//")
      THEN IF host = "" THEN None
           ELSE Some([scheme |-> scheme, host |-> Some(host),
                      path |-> IF path = "" THEN "/" ELSE path])
      ELSE Some([scheme |-> scheme, host |-> None,
                 path |-> Sub(rest, 1, FindAny(rest, {"?", "#"}) - 1)])

\* is_static_asset
is_static_asset(url_str) ==
  LET url == UrlParse(url_str) IN
    /\ url # None
    /\ LET path == ToLower(Val(url).path) IN
         \/ \E ext \in STATIC_EXTS : EndsWith(path, ext)
         \/ \E prefix \in SKIP_PATHS : StartsWith(path, prefix)

\* ------------------------------------------------------------------------
\* Maps and orders
\* ------------------------------------------------------------------------
EmptyMap == [k \in {} |-> ""]

\* HashMap::insert
MapPut(m, k, v) == [x \in DOMAIN m \cup {k} |-> IF x = k THEN v ELSE m[x]]

\* HashMap::insert where the source has entry().or_insert_with
MapPutAlways(m, k, v) == MapPut(m, k, v)

\* HashMap::entry(k).or_insert_with(v)
MapPutIfAbsent(m, k, v) == IF k \in DOMAIN m THEN m ELSE MapPut(m, k, v)

\* the orders in which the elements of a HashSet or the keys of a HashMap
\* can be enumerated
Orders(S) ==
  {s \in [1..Cardinality(S) -> S] :
     \A a, b \in 1..Cardinality(S) : a # b => s[a] # s[b]}

\* ------------------------------------------------------------------------
\* Captures explored (HarEntry, types.rs)
\* ------------------------------------------------------------------------
Hdr(n, v) == [name |-> n, value |-> v]

Entry(method, url, headers, cookies, resp_headers) ==
  [request  |-> [method |-> method, url |-> url, headers |-> headers,
                 cookies |-> cookies, post_data |-> None],
   response |-> [status |-> 200, headers |-> resp_headers,
                 content |-> None]]

\* first-party API call with auth headers, a context header, a pseudo-header
E_orders ==
  Entry("GET", "https://api.example.com/v1/orders?page=2",
        <<Hdr(":authority", "api.example.com"),
          Hdr("Authorization", "Bearer abc"),
          Hdr("X-Tenant-Id", "42"),
          Hdr("X-Custom", "1")>>,
        Some(<<Hdr("sessionid", "s1"), Hdr("theme", "dark")>>),
        <<Hdr("Content-Type", "application/json")>>)

\* same endpoint again, other values for the same headers
E_orders2 ==
  Entry("POST", "https://api.example.com/v1/orders",
        <<Hdr("authorization", "Basic dXNlcg=="),
          Hdr("X-Tenant-Id", "7"),
          Hdr("x-custom", "2"),
          Hdr("X-Request-Id", "r1")>>,
        None,
        <<Hdr("Set-Cookie", "sid=abc; Path=/; Expires=Wed, 21 Oct 2026")>>)

\* third-party host carrying auth-like material
E_ga ==
  Entry("POST", "https://www.google-analytics.com/collect",
        <<Hdr("X-Api-Key", "ga-key")>>,
        Some(<<Hdr("_ga_token", "1")>>),
        <<>>)

\* page of another site: not API-like
E_home ==
  Entry("GET", "https://shop.other.io/home",
        <<Hdr("Accept", "*/*")>>,
        None,
        <<Hdr("content-type", "text/plain")>>)

\* API call of another site; two headers satisfy the API-key rule
E_gql ==
  Entry("POST", "https://api.other.io/graphql",
        <<Hdr("x-api-key", "k1"), Hdr("ApiKey", "k2")>>,
        None,
        <<Hdr("Content-Type", "application/json")>>)

\* page of the seed's site: not API-like, same root as example.com
E_about ==
  Entry("GET", "https://www.example.com/about",
        <<Hdr("Mudra", "u9--tok")>>,
        Some(<<Hdr("SessionID", "s2")>>),
        <<>>)

E_static ==
  Entry("GET", "https://example.com/static/App.JS?v=3",
        <<Hdr("Authorization", "Bearer leak")>>, None, <<>>)

E_skip ==
  Entry("POST", "https://api.example.com/sitemap/v1/index",
        <<Hdr("X-Auth-Token", "leak")>>, None, <<>>)

E_html ==
  Entry("GET", "https://dev-portal.example.com/user",
        <<Hdr("X-Session", "leak")>>,
        Some(<<Hdr("auth", "leak")>>),
        <<Hdr("Content-Type", "Text/HTML; charset=utf-8")>>)

E_bad ==
  Entry("POST", "/api/login", <<Hdr("X-Api-Key", "leak")>>, None, <<>>)

E_nohost ==
  Entry("POST", "data:application/json,{}",
        <<Hdr("X-Api-Key", "leak")>>, None, <<>>)

Exchanges ==
  { E_orders, E_orders2, E_ga, E_home, E_gql, E_about, E_static, E_skip,
    E_html, E_bad, E_nohost }

\* seed_url: Option<String>
SeedUrls ==
  { None, Some("https://example.com/login"), Some("http://www.other.io"),
    Some("example.com") }

\* the exchanges no filter step drops unconditionally
CoreExchanges == {E_orders, E_orders2, E_home, E_gql, E_about}

\* the captures explored: short ones over every exchange, longer ones over
\* the exchanges that can be accepted
Captures ==
  UNION ({[1..n -> Exchanges] : n \in 0..MaxEntries}
           \cup {[1..n -> CoreExchanges] : n \in 0..MaxCoreEntries})

\* the captures handed to parse_har twice
TwiceExchanges == {E_orders, E_home, E_gql}
TwiceCaptures == UNION {[1..n -> TwiceExchanges] : n \in 0..MaxTwiceEntries}

\* ------------------------------------------------------------------------
\* State
\* ------------------------------------------------------------------------
VARIABLES
  har,             \* har.log.entries of the running parse_har call
  seed_url,        \* its seed_url argument
  pc,              \* "loop": in the for loop; "done": ApiData returned;
                   \* "auth": generate_auth_json applied to it
  idx,             \* 1-based position of the next entry of the loop
  requests,        \* Vec<ParsedRequest>
  auth_headers,    \* HashMap<String, String>
  cookies,         \* HashMap<String, String>
  auth_info,       \* HashMap<String, String>
  base_urls,       \* HashSet<String>
  target_domains,  \* HashSet<String>
  verdicts,        \* what the loop did with each entry so far: the continue
                   \* taken, or "accept"
  api,             \* the ApiData returned, None before
  auth,            \* the AuthJson built from api, None before
  prev,            \* input and results of the call made before, None if none
  call,            \* arguments of a direct call of an exported function
  ret,             \* its result, None before it returns
  vault,           \* the credentials table of vault.db, None while the
                   \* file does not exist
  deposited,       \* per service, the descriptor whose fields were last
                   \* handed to vault_store and not deleted since
  parked,          \* the locals of the parse_har calls of the threads
                   \* that are not running, one record per thread
  recorder,        \* CURRENT_SESSION, its mutex and the threads calling
                   \* the recording functions
  workflow         \* the locals of the running workflow_execute call

vars ==
  <<har, seed_url, pc, idx, requests, auth_headers, cookies, auth_info,
    base_urls, target_domains, verdicts, api, auth, prev, call, ret, vault,
    deposited, parked, recorder, workflow>>

vaultVars == <<vault, deposited>>

restVars == <<parked, recorder, workflow>>

harVars ==
  <<har, seed_url, pc, idx, requests, auth_headers, cookies, auth_info,
    base_urls, target_domains, verdicts, api, auth, prev>>

\* ------------------------------------------------------------------------
\* parse_har (parser/har.rs)
\* ------------------------------------------------------------------------
\* get_response_content_type: value of the first content-type header
get_response_content_type(entry) ==
  LET hs   == entry.response.headers
      hits == {k \in 1..Len(hs) : ToLower(hs[k].name) = "content-type"}
  IN  IF hits = {} THEN None
      ELSE Some(hs[CHOOSE k \in hits : \A j \in hits : k <= j].value)

\* seed_domain of parse_har
seed_domain_of(seed) ==
  IF seed = None \/ UrlParse(Val(seed)) = None THEN None
  ELSE Val(UrlParse(Val(seed))).host

\* the seed URL as it was given
seed_base_url_whole(seed) ==
  IF seed = None \/ UrlParse(Val(seed)) = None THEN None ELSE seed

\* seed_base_url of parse_har
seed_base_url_of(seed) ==
  IF seed = None \/ UrlParse(Val(seed)) = None THEN None
  ELSE LET parsed == Val(UrlParse(Val(seed))) IN
         Some(parsed.scheme \o "://"
                \o (IF parsed.host = None THEN "" ELSE Val(parsed.host)))

\* the admission test with the seed relation left out
rejects_non_target_unseeded(url_str, method, domain, content_type, targets, seed_domain) ==
  /\ ~is_api_like(url_str, method, domain, content_type)
  /\ targets # {}
  /\ domain \notin targets

\* the admission test with the emptiness test left out
rejects_non_target_always(url_str, method, domain, content_type, targets, seed_domain) ==
  /\ ~is_api_like(url_str, method, domain, content_type)
  /\ ~(\/ domain \in targets
       \/ seed_domain # None /\ is_same_root_domain(domain, Val(seed_domain)))

\* the admission test of the loop body: TRUE when the entry is dropped
\* because it is not API-like, targets exist and it is not one of them
rejects_non_target(url_str, method, domain, content_type, targets, seed_domain) ==
  LET is_seed_related == /\ seed_domain # None
                         /\ is_same_root_domain(domain, Val(seed_domain))
      is_target_domain == domain \in targets \/ is_seed_related
  IN  /\ ~is_api_like(url_str, method, domain, content_type)
      /\ targets # {}
      /\ ~is_target_domain

\* what the loop body does with an entry: the continue that drops it, in the
\* order of the code, or "accept"
Verdict(entry, targets, seed_domain) ==
  LET url_str == entry.request.url
      method  == entry.request.method
      ct      == get_response_content_type(entry)
      parsed  == UrlParse(url_str)
  IN  IF is_static_asset(url_str) THEN "static"
      ELSE IF parsed = None THEN "bad_url"
      ELSE IF Val(parsed).host = None THEN "no_host"
      ELSE IF is_skipped_domain(Val(Val(parsed).host)) THEN "third_party"
      ELSE IF method = "GET" /\ ct # None /\ is_html_content_type(Val(ct))
           THEN "html"
      ELSE IF rejects_non_target(url_str, method, Val(Val(parsed).host), ct,
                                 targets, seed_domain)
           THEN "not_target"
      ELSE "accept"

RECURSIVE extract_request_headers(_, _, _)
\* the loop over entry.request.headers; acc holds auth_headers and auth_info
extract_request_headers(headers, k, acc) ==
  IF k > Len(headers) THEN acc
  ELSE
    LET name  == ToLower(headers[k].name)
        value == headers[k].value
        key   == "request_header_" \o name
        a1 == IF is_auth_like_header(name)
              THEN [auth_headers |-> MapPut(acc.auth_headers, name, value),
                    auth_info    |-> MapPut(acc.auth_info, key, value)]
              ELSE acc
        a2 == IF name \in CONTEXT_HEADER_NAMES
              THEN [a1 EXCEPT !.auth_info = MapPut(@, key, value)]
              ELSE a1
        a3 == IF StartsWith(name, "x-") /\ ~is_standard_header(name)
                   /\ value # ""
              THEN [a2 EXCEPT !.auth_info = MapPutIfAbsent(@, key, value)]
              ELSE a2
    IN  IF is_http2_pseudo_header(name)
        THEN extract_request_headers(headers, k + 1, acc)
        ELSE extract_request_headers(headers, k + 1, a3)

RECURSIVE extract_request_cookies_bare(_, _, _)
\* the loop with the cookie recorded in auth_info under its bare name
extract_request_cookies_bare(cs, k, acc) ==
  IF k > Len(cs) THEN acc
  ELSE extract_request_cookies_bare(cs, k + 1,
         [cookies   |-> MapPut(acc.cookies, cs[k].name, cs[k].value),
          auth_info |-> MapPut(acc.auth_info, cs[k].name, cs[k].value)])

RECURSIVE extract_request_cookies(_, _, _)
\* the loop over entry.request.cookies; acc holds cookies and auth_info
extract_request_cookies(cs, k, acc) ==
  IF k > Len(cs) THEN acc
  ELSE extract_request_cookies(cs, k + 1,
         [cookies   |-> MapPut(acc.cookies, cs[k].name, cs[k].value),
          auth_info |-> MapPut(acc.auth_info,
                               "request_cookie_" \o cs[k].name, cs[k].value)])

RECURSIVE Trim(_)
\* str::trim (spaces)
Trim(s) ==
  IF StartsWith(s, " ") THEN Trim(Sub(s, 2, Len(s)))
  ELSE IF EndsWith(s, " ") THEN Trim(Sub(s, 1, Len(s) - 1))
  ELSE s

RECURSIVE extract_set_cookies(_, _, _)
\* the loop over entry.response.headers; info is auth_info
extract_set_cookies(headers, k, info) ==
  IF k > Len(headers) THEN info
  ELSE
    LET cookie_str == headers[k].value
        eq_pos  == Find(cookie_str, "=")
        cookie_name == Trim(Sub(cookie_str, 1, eq_pos - 1))
        rest    == Sub(cookie_str, eq_pos + 1, Len(cookie_str))
        semi_pos == Find(rest, ";")
        cookie_value == IF semi_pos # 0 THEN Trim(Sub(rest, 1, semi_pos - 1))
                        ELSE Trim(rest)
    IN  IF /\ ToLower(headers[k].name) = "set-cookie"
           /\ eq_pos # 0
           /\ cookie_name # ""
           /\ cookie_value # ""
        THEN extract_set_cookies(headers, k + 1,
               MapPut(info, "response_setcookie_" \o cookie_name,
                      cookie_value))
        ELSE extract_set_cookies(headers, k + 1, info)

\* the ParsedRequest with the root domain in place of the host
parsed_request_root(entry) ==
  LET parsed == Val(UrlParse(entry.request.url)) IN
    [method |-> entry.request.method,
     url    |-> entry.request.url,
     path   |-> parsed.path,
     domain |-> get_root_domain(Val(parsed.host)),
     status |-> entry.response.status,
     response_content_type |-> get_response_content_type(entry),
     request_body  |-> entry.request.post_data,
     response_body |-> entry.response.content]

\* the ParsedRequest pushed for an accepted entry
parsed_request(entry) ==
  LET parsed == Val(UrlParse(entry.request.url)) IN
    [method |-> entry.request.method,
     url    |-> entry.request.url,
     path   |-> parsed.path,
     domain |-> Val(parsed.host),
     status |-> entry.response.status,
     response_content_type |-> get_response_content_type(entry),
     request_body  |-> entry.request.post_data,
     response_body |-> entry.response.content]

\* the iteration with the request cookies copied ahead of the filter steps
ProcessEntryCookiesFirst ==
  /\ pc = "loop"
  /\ idx <= Len(har)
  /\ idx' = idx + 1
  /\ verdicts' = Append(verdicts, Verdict(har[idx], target_domains,
                                          seed_domain_of(seed_url)))
  /\ LET entry == har[idx]
         early == IF entry.request.cookies = None
                  THEN [cookies |-> cookies, auth_info |-> auth_info]
                  ELSE extract_request_cookies(Val(entry.request.cookies), 1,
                         [cookies |-> cookies, auth_info |-> auth_info])
     IN
       IF Verdict(entry, target_domains, seed_domain_of(seed_url)) # "accept"
       THEN /\ cookies' = early.cookies
            /\ auth_info' = early.auth_info
            /\ UNCHANGED <<requests, auth_headers, base_urls, target_domains>>
       ELSE
         LET parsed == Val(UrlParse(entry.request.url))
             domain == Val(parsed.host)
             h == extract_request_headers(entry.request.headers, 1,
                    [auth_headers |-> auth_headers,
                     auth_info |-> early.auth_info])
         IN  /\ target_domains' = target_domains \cup {domain}
             /\ base_urls' = base_urls \cup {parsed.scheme \o "://" \o domain}
             /\ auth_headers' = h.auth_headers
             /\ cookies' = early.cookies
             /\ auth_info' = extract_set_cookies(entry.response.headers, 1,
                                                 h.auth_info)
             /\ requests' = Append(requests, parsed_request(entry))
  /\ UNCHANGED <<har, seed_url, pc, api, auth, prev, call, ret, vaultVars,
                 restVars>>

\* one iteration of `for entry in &har.log.entries`
ProcessEntry ==
  /\ pc = "loop"
  /\ idx <= Len(har)
  /\ idx' = idx + 1
  /\ verdicts' = Append(verdicts, Verdict(har[idx], target_domains,
                                          seed_domain_of(seed_url)))
  /\ LET entry == har[idx] IN
       IF Verdict(entry, target_domains, seed_domain_of(seed_url)) # "accept"
       THEN UNCHANGED <<requests, auth_headers, cookies, auth_info,
                        base_urls, target_domains>>
       ELSE
         LET parsed == Val(UrlParse(entry.request.url))
             domain == Val(parsed.host)
             h == extract_request_headers(entry.request.headers, 1,
                    [auth_headers |-> auth_headers, auth_info |-> auth_info])
             c == IF entry.request.cookies = None
                  THEN [cookies |-> cookies, auth_info |-> h.auth_info]
                  ELSE extract_request_cookies(Val(entry.request.cookies), 1,
                         [cookies |-> cookies, auth_info |-> h.auth_info])
         IN  /\ target_domains' = target_domains \cup {domain}
             /\ base_urls' = base_urls \cup {parsed.scheme \o "://" \o domain}
             /\ auth_headers' = h.auth_headers
             /\ cookies' = c.cookies
             /\ auth_info' = extract_set_cookies(entry.response.headers, 1,
                                                 c.auth_info)
             /\ requests' = Append(requests, parsed_request(entry))
  /\ UNCHANGED <<har, seed_url, pc, api, auth, prev, call, ret, vaultVars,
                 restVars>>

\* auth_cookie_names of guess_auth_method, in its order
AUTH_COOKIE_NAMES ==
  << "session", "sessionid", "token", "authtoken", "jwt", "auth",
     "access_token", "accesstoken", "id_token", "refresh_token" >>

\* guess_auth_method returns one label; the operators below give the labels
\* it can return.  filter(..).collect()[0] runs over the map in its
\* iteration order, so the name inside a label is that of any entry that
\* passes the filter.
\* the rules over the headers; {} when none applies
header_auth_method(hdrs) ==
  LET header_names == {ToLower(h) : h \in DOMAIN hdrs}
      api_key_headers ==
        {h \in header_names :
           \/ Contains(h, "api-key") \/ Contains(h, "apikey")
           \/ h = "x-api-key" \/ h = "x-key"}
      jwt_headers ==
        {h \in header_names :
           \/ Contains(h, "jwt") \/ Contains(h, "id-token")
           \/ Contains(h, "id_token")}
      auth_value ==
        IF "authorization" \in DOMAIN hdrs THEN Some(hdrs["authorization"])
        ELSE IF "Authorization" \in DOMAIN hdrs
        THEN Some(hdrs["Authorization"])
        ELSE None
      session_headers ==
        {h \in header_names :
           \/ Contains(h, "session") \/ Contains(h, "csrf")
           \/ Contains(h, "xsrf")}
      oauth_headers == {h \in header_names : Contains(h, "oauth")}
      auth_token_headers ==
        {h \in header_names : Contains(h, "auth") \/ Contains(h, "token")}
      custom_headers == {h \in header_names : StartsWith(h, "x-")}
  IN  IF \E h \in DOMAIN hdrs : StartsWith(ToLower(hdrs[h]), "bearer ")
      THEN {"Bearer Token"}
      ELSE IF api_key_headers # {}
      THEN {"API Key (" \o h \o ")" : h \in api_key_headers}
      ELSE IF jwt_headers # {}
      THEN {"JWT (" \o h \o ")" : h \in jwt_headers}
      ELSE IF "authorization" \in header_names /\ auth_value # None
      THEN LET lower == ToLower(Val(auth_value)) IN
             IF StartsWith(lower, "basic ") THEN {"Basic Auth"}
             ELSE IF StartsWith(lower, "digest ") THEN {"Digest Auth"}
             ELSE {"Authorization Header"}
      ELSE IF session_headers # {}
      THEN {"Session Token (" \o h \o ")" : h \in session_headers}
      ELSE IF \E h \in header_names : Contains(h, "amz")
      THEN {"AWS Signature"}
      ELSE IF "mudra" \in DOMAIN hdrs
      THEN {"Mudra Token"}
      ELSE IF oauth_headers # {}
      THEN {"OAuth (" \o h \o ")" : h \in oauth_headers}
      ELSE IF auth_token_headers # {}
      THEN {"Custom Token (" \o h \o ")" : h \in auth_token_headers}
      ELSE IF custom_headers # {}
      THEN {"Custom Header (" \o h \o ")" : h \in custom_headers}
      ELSE {}

\* the rules over the cookies, and the label when nothing applies
cookie_auth_method(cks) ==
  LET exact_cookies ==
        {k \in 1..Len(AUTH_COOKIE_NAMES) :
           \E c \in DOMAIN cks : ToLower(c) = AUTH_COOKIE_NAMES[k]}
      auth_cookies ==
        {c \in DOMAIN cks :
           LET lower == ToLower(c) IN
             \/ Contains(lower, "auth") \/ Contains(lower, "token")
             \/ Contains(lower, "session")}
  IN  IF exact_cookies # {}
      THEN {"Cookie-based ("
              \o AUTH_COOKIE_NAMES[CHOOSE k \in exact_cookies :
                                     \A j \in exact_cookies : k <= j]
              \o ")"}
      ELSE IF auth_cookies # {}
      THEN {"Cookie-based (" \o c \o ")" : c \in auth_cookies}
      ELSE {"Unknown (may need login)"}

\* guess_auth_method with the cookie rules ahead of the header rules
guess_auth_method_cookies_first(hdrs, cks) ==
  IF cookie_auth_method(cks) # {"Unknown (may need login)"}
  THEN cookie_auth_method(cks)
  ELSE IF header_auth_method(hdrs) # {} THEN header_auth_method(hdrs)
  ELSE cookie_auth_method(cks)

\* guess_auth_method
guess_auth_method(hdrs, cks) ==
  IF header_auth_method(hdrs) # {} THEN header_auth_method(hdrs)
  ELSE cookie_auth_method(cks)

\* the grouping loop: endpoints after the first k requests
RECURSIVE group_endpoints(_, _)
group_endpoints(reqs, k) ==
  IF k = 0 THEN EmptyMap
  ELSE LET m   == group_endpoints(reqs, k - 1)
           key == reqs[k].domain \o ":" \o reqs[k].path
       IN  MapPut(m, key,
                  IF key \in DOMAIN m THEN Append(m[key], reqs[k])
                  ELSE <<reqs[k]>>)

\* number of requests of a domain
count_of(reqs, d) == Cardinality({k \in 1..Len(reqs) : reqs[k].domain = d})

\* max_by_key turned into a minimum
min_by_count(reqs, domains) ==
  {d \in domains : \A e \in domains : count_of(reqs, d) <= count_of(reqs, e)}

\* into_iter().max_by_key(count) over a HashMap: a key with the highest
\* count; which one among equals depends on the iteration order
max_by_count(reqs, domains) ==
  {d \in domains : \A e \in domains : count_of(reqs, e) <= count_of(reqs, d)}

\* the fixed fallback whatever the capture and the seed
resolve_service_fallback(reqs, targets, bases, seed_domain, seed_base_url) ==
  {<<"unknown-api", "https://api.example.com">>}

\* the (service, base_url) pairs parse_har can choose
resolve_service(reqs, targets, bases, seed_domain, seed_base_url) ==
  LET api_domains ==
        {d \in targets :
           \/ Contains(d, "api.") \/ Contains(d, "quote")
           \/ Contains(d, "service") \/ StartsWith(d, "dev-")}
      counted  == {d \in api_domains : count_of(reqs, d) > 0}
      best_api_domain == IF api_domains # {} THEN max_by_count(reqs, counted)
                         ELSE {}
      fallback == <<"unknown-api", "https://api.example.com">>
  IN  IF best_api_domain # {} /\ seed_domain # None
      THEN LET sd == Val(seed_domain) IN
             {IF is_same_root_domain(best, sd)
              THEN <<derive_service_name(sd), "https://" \o best>>
              ELSE IF seed_base_url # None
              THEN <<derive_service_name(sd), Val(seed_base_url)>>
              ELSE fallback : best \in best_api_domain}
      ELSE IF seed_domain # None
      THEN {<<derive_service_name(Val(seed_domain)),
              IF seed_base_url # None THEN Val(seed_base_url)
              ELSE "https://api.example.com">>}
      ELSE IF targets # {}
      THEN LET all == {reqs[k].domain : k \in 1..Len(reqs)} IN
             IF all # {}
             THEN {<<derive_service_name(d), "https://" \o d>> :
                     d \in max_by_count(reqs, all)}
             ELSE {fallback}
      ELSE IF bases # {}
      THEN {IF UrlParse(first) # None
            THEN <<derive_service_name(
                     IF Val(UrlParse(first)).host = None THEN "unknown"
                     ELSE Val(Val(UrlParse(first)).host)), first>>
            ELSE fallback : first \in bases}
      ELSE {fallback}

\* the end of parse_har: grouping, service and base URL, auth method, and
\* the ApiData returned.  base_urls becomes a Vec in the set's iteration
\* order; endpoint_keys is the order in which the endpoints map enumerates
Finish ==
  /\ pc = "loop"
  /\ idx > Len(har)
  /\ LET endpoints == group_endpoints(requests, Len(requests)) IN
       \E sb \in resolve_service(requests, target_domains, base_urls,
                                 seed_domain_of(seed_url),
                                 seed_base_url_of(seed_url)),
          bu \in Orders(base_urls),
          ek \in Orders(DOMAIN endpoints),
          am \in guess_auth_method(auth_headers, cookies) :
         api' = Some([service      |-> sb[1],
                      base_urls    |-> bu,
                      base_url     |-> sb[2],
                      auth_headers |-> auth_headers,
                      auth_method  |-> am,
                      cookies      |-> cookies,
                      auth_info    |-> auth_info,
                      requests     |-> requests,
                      endpoints    |-> endpoints,
                      endpoint_keys |-> ek])
  /\ pc' = "done"
  /\ UNCHANGED <<har, seed_url, idx, requests, auth_headers, cookies,
                 auth_info, base_urls, target_domains, verdicts, auth, prev,
                 call, ret, vaultVars, restVars>>

\* ------------------------------------------------------------------------
\* generate_auth_json (auth/extractor.rs)
\* ------------------------------------------------------------------------
CONTEXT_PATTERNS ==
  { "outletid", "userid", "supplierid", "companyid", "tenantid",
    "organizationid", "accountid", "workspaceid", "projectid" }

\* the patterns without the short ones
AUTH_COOKIE_PATTERNS_long ==
  { "session", "token", "auth", "jwt", "access", "refresh", "csrf", "xsrf",
    "id_token" }

AUTH_COOKIE_PATTERNS ==
  { "session", "token", "auth", "jwt", "access", "refresh", "csrf", "xsrf",
    "sid", "id_token" }

\* the context test without the case folding
is_context_name_cased(name) == \E p \in CONTEXT_PATTERNS : Contains(name, p)

\* the test both loops apply to a header name
is_context_name(name) ==
  LET lower == ToLower(name) IN
    \E p \in CONTEXT_PATTERNS : Contains(lower, p)

\* restriction of a map to the keys in S
Restrict(m, S) == [k \in S |-> m[k]]

\* Some(m) also for an empty map
NonEmptyAlways(m) == Some(m)

\* if m.is_empty() { None } else { Some(m) }
NonEmpty(m) == IF DOMAIN m = {} THEN None ELSE Some(m)

generate_auth_json(service, base_url, auth_method, hdrs, cks, info) ==
  LET \* first loop: auth_headers split by the context test
      headers1 == Restrict(hdrs, {k \in DOMAIN hdrs : ~is_context_name(k)})
      context1 == Restrict(hdrs, {k \in DOMAIN hdrs : is_context_name(k)})
      \* second loop: request_header_ entries of auth_info
      prefix   == "request_header_"
      tagged   == {k \in DOMAIN info :
                     /\ StartsWith(k, prefix)
                     /\ is_context_name(Sub(k, Len(prefix) + 1, Len(k)))}
      names    == {Sub(k, Len(prefix) + 1, Len(k)) : k \in tagged}
      context2 == [n \in DOMAIN context1 \cup names |->
                     IF n \in names THEN info[prefix \o n] ELSE context1[n]]
      \* Mudra token
      mudra    == IF "mudra" \in DOMAIN hdrs THEN Some(hdrs["mudra"])
                  ELSE IF "Mudra" \in DOMAIN hdrs THEN Some(hdrs["Mudra"])
                  ELSE None
      context3 == IF mudra # None /\ Find(Val(mudra), "--") # 0
                  THEN MapPut(context2, "userId",
                              Sub(Val(mudra), 1, Find(Val(mudra), "--") - 1))
                  ELSE context2
      filtered_cookies ==
        Restrict(cks, {n \in DOMAIN cks :
                         \E p \in AUTH_COOKIE_PATTERNS :
                           Contains(ToLower(n), p)})
  IN  [service     |-> service,
       base_url    |-> base_url,
       auth_method |-> auth_method,
       headers     |-> NonEmpty(headers1),
       cookies     |-> NonEmpty(filtered_cookies),
       context     |-> NonEmpty(context3),
       refresh     |-> None]

\* the caller hands the fields of the ApiData to generate_auth_json
GenerateAuthJson ==
  /\ pc = "done"
  /\ auth' = Some(generate_auth_json(Val(api).service, Val(api).base_url,
                                     Val(api).auth_method,
                                     Val(api).auth_headers, Val(api).cookies,
                                     Val(api).auth_info))
  /\ pc' = "auth"
  /\ UNCHANGED <<har, seed_url, idx, requests, auth_headers, cookies,
                 auth_info, base_urls, target_domains, verdicts, api, prev,
                 call, ret, vaultVars, restVars>>

\* a parse_har call that starts with what the call before left in the
\* accumulators
StartOnLeftovers(entries, seed) ==
  /\ har' = entries
  /\ seed_url' = seed
  /\ pc' = "loop"
  /\ idx' = 1
  /\ requests' = <<>>
  /\ UNCHANGED <<auth_headers, cookies, auth_info, base_urls, target_domains>>
  /\ verdicts' = <<>>
  /\ api' = None
  /\ auth' = None

\* the state of a parse_har call before its loop
Start(entries, seed) ==
  /\ har' = entries
  /\ seed_url' = seed
  /\ pc' = "loop"
  /\ idx' = 1
  /\ requests' = <<>>
  /\ auth_headers' = EmptyMap
  /\ cookies' = EmptyMap
  /\ auth_info' = EmptyMap
  /\ base_urls' = {}
  /\ target_domains' = {}
  /\ verdicts' = <<>>
  /\ api' = None
  /\ auth' = None

Reverse(s) == [k \in 1..Len(s) |-> s[Len(s) + 1 - k]]

\* Every local of parse_har is created by the call, so a second call starts
\* from the same state.  The call before is kept for comparison.
\* second call on the identical capture and seed
Again ==
  /\ pc = "auth"
  /\ prev = None
  /\ prev' = Some([har |-> har, seed_url |-> seed_url, api |-> Val(api),
                   auth |-> Val(auth)])
  /\ Start(har, seed_url)
  /\ UNCHANGED <<call, ret, vaultVars, restVars>>

\* second call on the same exchanges in the opposite order
AgainReversed ==
  /\ pc = "auth"
  /\ prev = None
  /\ Len(har) > 1
  /\ prev' = Some([har |-> har, seed_url |-> seed_url, api |-> Val(api),
                   auth |-> Val(auth)])
  /\ Start(Reverse(har), seed_url)
  /\ UNCHANGED <<call, ret, vaultVars, restVars>>

\* no direct call in progress
NoCall == call = None /\ ret = None

\* a parse_har call about to enter its loop
Fresh(entries, seed) ==
  /\ har = entries
  /\ seed_url = seed
  /\ pc = "loop"
  /\ idx = 1
  /\ requests = <<>>
  /\ auth_headers = EmptyMap
  /\ cookies = EmptyMap
  /\ auth_info = EmptyMap
  /\ base_urls = {}
  /\ target_domains = {}
  /\ verdicts = <<>>
  /\ api = None
  /\ auth = None
  /\ prev = None
  /\ vault = None
  /\ deposited = EmptyMap
  /\ parked = <<>>
  /\ recorder = None
  /\ workflow = None

\* one parse_har call, then generate_auth_json on its result
Init ==
  /\ \E entries \in Captures, seed \in SeedUrls : Fresh(entries, seed)
  /\ NoCall

Next ==
  \/ ProcessEntry
  \/ Finish
  \/ GenerateAuthJson

Spec == Init /\ [][Next]_vars

\* the short captures over every exchange
ShortCaptures == UNION {[1..n -> Exchanges] : n \in 0..MaxEntries}

\* one parse_har call on a short capture, then generate_auth_json
InitShort ==
  /\ \E entries \in ShortCaptures, seed \in SeedUrls : Fresh(entries, seed)
  /\ NoCall

SpecShort == InitShort /\ [][Next]_vars

\* the same, followed by a second call
InitTwice ==
  /\ \E entries \in TwiceCaptures, seed \in SeedUrls : Fresh(entries, seed)
  /\ NoCall

NextTwice ==
  \/ ProcessEntry
  \/ Finish
  \/ GenerateAuthJson
  \/ Again
  \/ AgainReversed

SpecTwice == InitTwice /\ [][NextTwice]_vars

\* ------------------------------------------------------------------------
\* parse_har as a function of its arguments, and calls from several threads
\* ------------------------------------------------------------------------
\* the accumulators parse_har creates before its loop
empty_locals ==
  [requests |-> <<>>, auth_headers |-> EmptyMap, cookies |-> EmptyMap,
   auth_info |-> EmptyMap, base_urls |-> {}, target_domains |-> {}]

\* the accumulators after the loop body has run on one more entry
loop_body(s, entry, seed) ==
  IF Verdict(entry, s.target_domains, seed_domain_of(seed)) # "accept"
  THEN s
  ELSE
    LET parsed == Val(UrlParse(entry.request.url))
        domain == Val(parsed.host)
        h == extract_request_headers(entry.request.headers, 1,
               [auth_headers |-> s.auth_headers, auth_info |-> s.auth_info])
        c == IF entry.request.cookies = None
             THEN [cookies |-> s.cookies, auth_info |-> h.auth_info]
             ELSE extract_request_cookies(Val(entry.request.cookies), 1,
                    [cookies |-> s.cookies, auth_info |-> h.auth_info])
    IN  [requests       |-> Append(s.requests, parsed_request(entry)),
         auth_headers   |-> h.auth_headers,
         cookies        |-> c.cookies,
         auth_info      |-> extract_set_cookies(entry.response.headers, 1,
                                                c.auth_info),
         base_urls      |-> s.base_urls \cup {parsed.scheme \o "://" \o domain},
         target_domains |-> s.target_domains \cup {domain}]

RECURSIVE loop_locals(_, _, _)
\* the accumulators after the loop has run on the first k entries
loop_locals(entries, seed, k) ==
  IF k = 0 THEN empty_locals
  ELSE loop_body(loop_locals(entries, seed, k - 1), entries[k], seed)

\* the ApiData values parse_har can return with the accumulators s
api_data(s, seed) ==
  LET endpoints == group_endpoints(s.requests, Len(s.requests)) IN
    {[service      |-> sb[1],
      base_urls    |-> bu,
      base_url     |-> sb[2],
      auth_headers |-> s.auth_headers,
      auth_method  |-> am,
      cookies      |-> s.cookies,
      auth_info    |-> s.auth_info,
      requests     |-> s.requests,
      endpoints    |-> endpoints,
      endpoint_keys |-> ek] :
       sb \in resolve_service(s.requests, s.target_domains, s.base_urls,
                              seed_domain_of(seed), seed_base_url_of(seed)),
       bu \in Orders(s.base_urls),
       ek \in Orders(DOMAIN endpoints),
       am \in guess_auth_method(s.auth_headers, s.cookies)}

\* the ApiData values a parse_har call on the entries and the seed can
\* return when nothing else runs
parse_har_results(entries, seed) ==
  api_data(loop_locals(entries, seed, Len(entries)), seed)

\* the batches the threads hand to parse_har
ParExchanges == {E_orders, E_gql, E_home}
ParCaptures == UNION {[1..n -> ParExchanges] : n \in 0..MaxParEntries}
ParSeeds == {None, Some("https://example.com/login")}

\* the calls of the other threads, and the batches of a thread's next call
ParkedCalls == {<<<<E_home, E_gql>>, Some("https://example.com/login")>>}
ThenCaptures == {<<E_home>>}

\* the locals of the parse_har call of the running thread
Running ==
  [har |-> har, seed_url |-> seed_url, pc |-> pc, idx |-> idx,
   requests |-> requests, auth_headers |-> auth_headers,
   cookies |-> cookies, auth_info |-> auth_info, base_urls |-> base_urls,
   target_domains |-> target_domains, verdicts |-> verdicts, api |-> api]

\* a thread goes on with its parse_har call
Resume(l) ==
  /\ har' = l.har
  /\ seed_url' = l.seed_url
  /\ pc' = l.pc
  /\ idx' = l.idx
  /\ requests' = l.requests
  /\ auth_headers' = l.auth_headers
  /\ cookies' = l.cookies
  /\ auth_info' = l.auth_info
  /\ base_urls' = l.base_urls
  /\ target_domains' = l.target_domains
  /\ verdicts' = l.verdicts
  /\ api' = l.api

\* the locals of a call about to enter its loop
fresh_locals(entries, seed) ==
  [har |-> entries, seed_url |-> seed, pc |-> "loop", idx |-> 1,
   requests |-> <<>>, auth_headers |-> EmptyMap, cookies |-> EmptyMap,
   auth_info |-> EmptyMap, base_urls |-> {}, target_domains |-> {},
   verdicts |-> <<>>, api |-> None]

\* the scheduler runs another thread: every local of parse_har lives on
\* the stack of its thread, the filter lists are immutable statics
Switch ==
  /\ \E k \in 1..Len(parked) :
       /\ Resume(parked[k])
       /\ parked' = [parked EXCEPT ![k] = Running]
  /\ UNCHANGED <<auth, prev, call, ret, vaultVars, recorder, workflow>>

\* the running thread, back from parse_har, calls it again on another batch
ThenParseHar ==
  /\ pc = "done"
  /\ prev = None
  /\ prev' = Some([har |-> har, seed_url |-> seed_url, api |-> Val(api),
                   auth |-> auth])
  /\ \E entries \in ThenCaptures : Start(entries, None)
  /\ UNCHANGED <<call, ret, vaultVars, restVars>>

\* one parse_har call per thread, all about to enter their loops
InitPar ==
  /\ \E entries \in ParCaptures, seed \in ParSeeds :
       /\ har = entries
       /\ seed_url = seed
  /\ pc = "loop"
  /\ idx = 1
  /\ requests = <<>>
  /\ auth_headers = EmptyMap
  /\ cookies = EmptyMap
  /\ auth_info = EmptyMap
  /\ base_urls = {}
  /\ target_domains = {}
  /\ verdicts = <<>>
  /\ api = None
  /\ auth = None
  /\ prev = None
  /\ vault = None
  /\ deposited = EmptyMap
  /\ parked \in [1..MaxParked ->
                   {fresh_locals(c[1], c[2]) : c \in ParkedCalls}]
  /\ recorder = None
  /\ workflow = None
  /\ NoCall

NextPar ==
  \/ ProcessEntry
  \/ Finish
  \/ Switch
  \/ ThenParseHar

SpecPar == InitPar /\ [][NextPar]_vars

\* ------------------------------------------------------------------------
\* Direct calls of the exported pure functions
\* ------------------------------------------------------------------------
\* no parse_har call in progress
NoHar ==
  /\ har = <<>>
  /\ seed_url = None
  /\ pc = "idle"
  /\ idx = 1
  /\ requests = <<>>
  /\ auth_headers = EmptyMap
  /\ cookies = EmptyMap
  /\ auth_info = EmptyMap
  /\ base_urls = {}
  /\ target_domains = {}
  /\ verdicts = <<>>
  /\ api = None
  /\ auth = None
  /\ prev = None
  /\ vault = None
  /\ deposited = EmptyMap
  /\ parked = <<>>
  /\ recorder = None
  /\ workflow = None

\* domains handed to get_service_name: at most MaxLabels labels
Labels == {"www", "api", "app", "m", "GitHub", "com", "io", ""}
Domains == {Join(ls, ".") : ls \in UNION {[1..n -> Labels] : n \in 1..MaxLabels}}

\* get_service_name (har.rs) calls derive_service_name
GetServiceName ==
  /\ call # None
  /\ ret = None
  /\ ret' = Some(derive_service_name(Val(call)))
  /\ UNCHANGED <<call, harVars, vaultVars, restVars>>

RECURSIVE MapsOf(_, _)
\* the maps of at most n entries taken from pairs of <<key, value>>
MapsOf(pairs, n) ==
  IF n = 0 THEN {EmptyMap}
  ELSE LET smaller == MapsOf(pairs, n - 1) IN
         smaller \cup
           {MapPut(m, p[1], p[2]) :
              <<m, p>> \in {x \in smaller \X pairs : x[2][1] \notin DOMAIN x[1]}}

\* headers and cookies handed to detect_auth_method
AuthHeaderPairs ==
  { <<"authorization", "Bearer t">>, <<"authorization", "Basic dQ==">>,
    <<"authorization", "Digest d">>, <<"authorization", "tok">>,
    <<"x-api-key", "k">>, <<"apikey", "k">>, <<"x-jwt", "j">>,
    <<"x-session", "s">>, <<"x-amz-date", "d">>, <<"mudra", "u--t">>,
    <<"x-oauth", "o">>, <<"x-auth-token", "a">>, <<"x-custom", "c">>,
    <<"accept", "*">>, <<"Authorization", "Basic dQ==">>,
    <<"AUTHORIZATION", "Basic dQ==">>, <<"Mudra", "u--t">>,
    <<"X-Custom", "c">> }

AuthCookiePairs ==
  { <<"sessionid", "s">>, <<"SessionID", "s">>, <<"jwt", "j">>,
    <<"my_auth", "a">>, <<"theme", "dark">>, <<"refresh_token", "r">> }

\* detect_auth_method (har.rs) calls guess_auth_method
DetectAuthMethod ==
  /\ call # None
  /\ ret = None
  /\ \E label \in guess_auth_method(Val(call).headers, Val(call).cookies) :
       ret' = Some(label)
  /\ UNCHANGED <<call, harVars, vaultVars, restVars>>

InitAuthMethod ==
  /\ call \in {Some([headers |-> h, cookies |-> c]) :
                 h \in MapsOf(AuthHeaderPairs, MaxHeaders),
                 c \in MapsOf(AuthCookiePairs, MaxCookies)}
  /\ ret = None
  /\ NoHar

SpecAuthMethod == InitAuthMethod /\ [][DetectAuthMethod]_vars

\* arguments handed to generate_auth_json
GenHeaderPairs ==
  { <<"authorization", "t">>, <<"x-api-key", "k">>, <<"x-userid", "1">>,
    <<"UserId", "2">>, <<"userId", "5">>, <<"tenantid", "4">>,
    <<"x-tenant-id", "3">>, <<"mudra", "u9--tok">>, <<"mudra", "plain">>,
    <<"Mudra", "u8--tok">>, <<"MUDRA", "u7--tok">> }

GenCookiePairs ==
  { <<"sessionid", "s">>, <<"theme", "dark">>, <<"SID", "x">>,
    <<"lang", "en">> }

GenInfoPairs ==
  { <<"request_header_x-userid", "9">>, <<"request_header_companyid", "c">>,
    <<"request_header_x-custom", "z">>, <<"request_cookie_userid", "q">>,
    <<"request_header_x-tenant-id", "42">>,
    <<"response_setcookie_accountid", "r">> }

\* a direct call of generate_auth_json
CallGenerateAuthJson ==
  /\ call # None
  /\ ret = None
  /\ ret' = Some(generate_auth_json(Val(call).service, Val(call).base_url,
                                    Val(call).auth_method,
                                    Val(call).auth_headers,
                                    Val(call).cookies, Val(call).auth_info))
  /\ UNCHANGED <<call, harVars, vaultVars, restVars>>

InitGen ==
  /\ call \in {Some([service |-> "acme", base_url |-> "https://api.acme.io",
                      auth_method |-> "Bearer Token", auth_headers |-> h,
                      cookies |-> c, auth_info |-> i]) :
                 h \in MapsOf(GenHeaderPairs, MaxHeaders),
                 c \in MapsOf(GenCookiePairs, MaxCookies),
                 i \in MapsOf(GenInfoPairs, MaxInfo)}
  /\ ret = None
  /\ NoHar

SpecGen == InitGen /\ [][CallGenerateAuthJson]_vars

InitName == call \in {Some(d) : d \in Domains} /\ ret = None /\ NoHar
SpecName == InitName /\ [][GetServiceName]_vars

\* ------------------------------------------------------------------------
\* Refresh detection (auth/extractor.rs)
\* ------------------------------------------------------------------------
REFRESH_URL_PATTERNS ==
  { "/oauth/token", "/oauth2/v1/token", "/oauth2/v2/token",
    "/oauth2/v3/token", "/oauth2/v4/token", "/auth/refresh",
    "/auth/token/refresh", "/token/refresh", "/refresh",
    "/api/auth/refresh", "/api/token/refresh",
    "/securetoken.googleapis.com", "/v1/token", "/v2/token" }

\* serde_json::Value of a JSON string and of a JSON integer
JsonString(t) == [kind |-> "string", text |-> t, int |-> 0]
JsonNumber(n) == [kind |-> "number", text |-> "", int |-> n]
JsonNull == [kind |-> "null", text |-> "", int |-> 0]

\* Value::as_i64
as_i64(v) == IF v.kind = "number" THEN Some(v.int) ELSE None

\* the response bodies of the captures explored
BODY_ACCESS == "{\"access_token\":\"new\",\"expires_in\":3600}"
BODY_TOKEN == "{\"token\":\"t\",\"expiresIn\":\"60\"}"
BODY_ID == "{\"id_token\":\"i\",\"expiresIn\":60}"
BODY_HTML == "<html>denied</html>"
BODY_ALL ==
  "{\"id_token\":\"i\",\"token\":\"t\",\"access_token\":null,"
    \o "\"expiresIn\":60,\"expires_in\":3600}"
BODY_MIXED ==
  "{\"id_token\":\"i\",\"token\":\"t\",\"expires_in\":\"3600\","
    \o "\"expiresIn\":60}"
BODY_LIST == "[\"access_token\", 3600]"

\* serde_json::from_str::<Value> on those bodies: the members of the
\* object, None when the text is not JSON
JsonParse(text) ==
  CASE text = BODY_ACCESS ->
         Some(("access_token" :> JsonString("new"))
                @@ ("expires_in" :> JsonNumber(3600)))
    [] text = BODY_TOKEN ->
         Some(("token" :> JsonString("t")) @@ ("expiresIn" :> JsonString("60")))
    [] text = BODY_ID ->
         Some(("id_token" :> JsonString("i")) @@ ("expiresIn" :> JsonNumber(60)))
    [] text = BODY_ALL ->
         Some(("id_token" :> JsonString("i")) @@ ("token" :> JsonString("t"))
                @@ ("access_token" :> JsonNull)
                @@ ("expiresIn" :> JsonNumber(60))
                @@ ("expires_in" :> JsonNumber(3600)))
    [] text = BODY_MIXED ->
         Some(("id_token" :> JsonString("i")) @@ ("token" :> JsonString("t"))
                @@ ("expires_in" :> JsonString("3600"))
                @@ ("expiresIn" :> JsonNumber(60)))
    [] text = BODY_LIST -> Some(EmptyMap)
    [] OTHER -> None

\* str::split_once('='): <<key, value>>, None without '='
split_once_eq(pair) ==
  LET k == Find(pair, "=") IN
    IF k = 0 THEN None
    ELSE Some(<<Sub(pair, 1, k - 1), Sub(pair, k + 1, Len(pair))>>)

REFRESH_PLACEHOLDER == "${refreshToken}"

RECURSIVE form_params_cased(_, _)
\* the loop when the key is tested as it is spelled
form_params_cased(pairs, k) ==
  IF k = 0 THEN EmptyMap
  ELSE LET params == form_params_cased(pairs, k - 1)
           kv     == split_once_eq(pairs[k])
       IN  IF kv = None THEN params
           ELSE MapPut(params, Val(kv)[1],
                       IF Contains(Val(kv)[1], "token")
                       THEN REFRESH_PLACEHOLDER
                       ELSE Val(kv)[2])

RECURSIVE form_params(_, _)
\* the loop over body.split('&'): the map after the first k pairs
form_params(pairs, k) ==
  IF k = 0 THEN EmptyMap
  ELSE LET params == form_params(pairs, k - 1)
           kv     == split_once_eq(pairs[k])
       IN  IF kv = None THEN params
           ELSE MapPut(params, Val(kv)[1],
                       IF Contains(ToLower(Val(kv)[1]), "token")
                       THEN REFRESH_PLACEHOLDER
                       ELSE Val(kv)[2])

\* the token path and expiry read with the priorities reversed
refresh_token_info_reversed(response_body) ==
  LET json == IF response_body = None THEN None
              ELSE JsonParse(Val(response_body))
  IN  IF json = None
      THEN [token_path |-> None, expires_in |-> None]
      ELSE LET obj == Val(json) IN
        [token_path |->
           IF "id_token" \in DOMAIN obj THEN Some("id_token")
           ELSE IF "token" \in DOMAIN obj THEN Some("token")
           ELSE IF "access_token" \in DOMAIN obj THEN Some("access_token")
           ELSE None,
         expires_in |->
           IF "expiresIn" \in DOMAIN obj /\ as_i64(obj["expiresIn"]) # None
           THEN as_i64(obj["expiresIn"])
           ELSE IF "expires_in" \in DOMAIN obj THEN as_i64(obj["expires_in"])
           ELSE None]

\* the token path and expiry read from the response body
refresh_token_info(response_body) ==
  LET json == IF response_body = None THEN None
              ELSE JsonParse(Val(response_body))
  IN  IF json = None
      THEN [token_path |-> None, expires_in |-> None]
      ELSE LET obj == Val(json) IN
        [token_path |->
           IF "access_token" \in DOMAIN obj THEN Some("access_token")
           ELSE IF "token" \in DOMAIN obj THEN Some("token")
           ELSE IF "id_token" \in DOMAIN obj THEN Some("id_token")
           ELSE None,
         expires_in |->
           IF "expires_in" \in DOMAIN obj /\ as_i64(obj["expires_in"]) # None
           THEN as_i64(obj["expires_in"])
           ELSE IF "expiresIn" \in DOMAIN obj THEN as_i64(obj["expiresIn"])
           ELSE None]

\* the early return of detect_refresh_endpoint is not taken
is_refresh_exchange(url, request_body) ==
  LET url_lower == ToLower(url)
      is_refresh_url == \E p \in REFRESH_URL_PATTERNS : Contains(url_lower, p)
      has_refresh_grant ==
        /\ request_body # None
        /\ LET lower == ToLower(Val(request_body)) IN
             \/ Contains(lower, "grant_type=refresh_token")
             \/ Contains(lower, "\"grant_type\":\"refresh_token\"")
             \/ Contains(lower, "refresh_token=")
  IN  is_refresh_url \/ has_refresh_grant

detect_refresh_endpoint(url, method, request_body, response_body) ==
  IF ~is_refresh_exchange(url, request_body) THEN None
  ELSE
    LET info == refresh_token_info(response_body)
        body_template ==
          IF request_body = None THEN None
          ELSE LET body == Val(request_body) IN
                 IF Contains(body, "=") /\ ~StartsWith(body, "{")
                 THEN LET pairs == Split(body, "&") IN
                        Some(form_params(pairs, Len(pairs)))
                 ELSE None
    IN  Some([endpoint   |-> url,
              method     |-> method,
              body       |-> body_template,
              token_path |-> info.token_path,
              expires_in |-> info.expires_in])

\* the config of entry k of the capture
entry_refresh_config(entries, k) ==
  detect_refresh_endpoint(entries[k].request.url, entries[k].request.method,
                          entries[k].request.post_data,
                          entries[k].response.content)

\* a capture document: text that deserializes to a Har, or text that does not
HarDocument(entries) == [well_formed |-> TRUE, entries |-> entries]
MalformedDocument == [well_formed |-> FALSE, entries |-> <<>>]

\* serde_json::from_str::<Har>
har_from_str(har_json) ==
  IF har_json.well_formed THEN Some(har_json.entries) ELSE None

\* the config of the last entry that has one
extract_refresh_config_last(har_json) ==
  IF har_from_str(har_json) = None THEN None
  ELSE LET entries == Val(har_from_str(har_json))
           hits == {k \in 1..Len(entries) :
                      entry_refresh_config(entries, k) # None}
       IN  IF hits = {} THEN None
           ELSE entry_refresh_config(entries,
                  CHOOSE k \in hits : \A j \in hits : j <= k)

\* extract_refresh_config: the config of the first entry that has one
extract_refresh_config(har_json) ==
  IF har_from_str(har_json) = None THEN None
  ELSE LET entries == Val(har_from_str(har_json))
           hits == {k \in 1..Len(entries) :
                      entry_refresh_config(entries, k) # None}
       IN  IF hits = {} THEN None
           ELSE entry_refresh_config(entries,
                  CHOOSE k \in hits : \A j \in hits : k <= j)

EntryWithBodies(method, url, headers, req_body, resp_headers, resp_body) ==
  [request  |-> [method |-> method, url |-> url, headers |-> headers,
                 cookies |-> None, post_data |-> req_body],
   response |-> [status |-> 200, headers |-> resp_headers,
                 content |-> resp_body]]

\* token refresh of the first party: form body, JSON response
E_token ==
  EntryWithBodies("POST", "https://auth.example.com/oauth/token",
    <<Hdr("Content-Type", "application/x-www-form-urlencoded")>>,
    Some("grant_type=refresh_token&refresh_token=XYZ&client_id=abc"),
    <<Hdr("Content-Type", "application/json")>>,
    Some(BODY_ACCESS))

\* refresh grant sent to a third-party host; the URL has no marker; a key
\* in capitals, a pair without '=', a key sent twice, a key that repeats
\* the token's value
E_grant ==
  EntryWithBodies("POST", "https://www.google-analytics.com/collect",
    <<>>,
    Some("Refresh_Token=T1&state=T1&flag&scope=r&scope=w"),
    <<>>,
    Some(BODY_TOKEN))

\* static asset whose path has a marker; no bodies
E_script ==
  EntryWithBodies("GET", "https://example.com/static/Refresh.js",
    <<>>, None, <<>>, None)

\* JSON request body holding a grant marker and an '='
E_json ==
  EntryWithBodies("POST", "https://api.example.com/session",
    <<Hdr("Authorization", "Bearer old")>>,
    Some("{\"grant_type\":\"refresh_token\",\"next\":\"/a?b=c\"}"),
    <<Hdr("Content-Type", "application/json")>>,
    Some(BODY_ID))

\* HTML answer to a refresh request
E_denied ==
  EntryWithBodies("POST", "https://api.example.com/v2/token",
    <<>>,
    Some("token=old&Client_Id=abc"),
    <<Hdr("Content-Type", "text/html")>>,
    Some(BODY_HTML))

\* refresh answered with every token field and both expiry fields
E_all ==
  EntryWithBodies("POST", "https://api.example.com/Auth/Refresh",
    <<>>, None, <<>>, Some(BODY_ALL))

\* refresh answered without access_token, expires_in sent as a string
E_mixed ==
  EntryWithBodies("PUT", "https://api.example.com/token/refresh",
    <<>>, None, <<>>, Some(BODY_MIXED))

\* refresh answered with JSON that is not an object
E_list ==
  EntryWithBodies("POST", "https://api.example.com/v1/token",
    <<>>, None, <<>>, Some(BODY_LIST))

DocExchanges ==
  {E_token, E_grant, E_script, E_json, E_denied, E_orders, E_all, E_mixed,
   E_list}

\* the documents handed to parse_har and to extract_refresh_config
Documents ==
  {MalformedDocument} \cup
    {HarDocument(e) :
       e \in UNION {[1..n -> DocExchanges] : n \in 0..MaxDocEntries}}

\* no call made yet on the document
InitDoc ==
  /\ call \in {Some([har_json |-> d, seed_url |-> None]) : d \in Documents}
  /\ ret = None
  /\ NoHar

\* parse_har up to its loop: the document is deserialized, and the call
\* ends with an Err when that fails
ParseHar ==
  /\ pc = "idle"
  /\ call # None
  /\ ret = None
  /\ LET parsed == har_from_str(Val(call).har_json) IN
       IF parsed = None
       THEN /\ ret' = Some([function |-> "parse_har", is_err |-> TRUE,
                            value |-> None])
            /\ UNCHANGED <<call, harVars, vaultVars, restVars>>
       ELSE /\ Start(Val(parsed), Val(call).seed_url)
            /\ UNCHANGED <<call, ret, prev, vaultVars, restVars>>

\* a call of extract_refresh_config on the document
ExtractRefreshConfig ==
  /\ pc \in {"idle", "auth"}
  /\ call # None
  /\ ret = None
  /\ ret' = Some([function |-> "extract_refresh_config", is_err |-> FALSE,
                  value |-> extract_refresh_config(Val(call).har_json)])
  /\ UNCHANGED <<call, harVars, vaultVars, restVars>>

NextDoc ==
  \/ ParseHar
  \/ ProcessEntry
  \/ Finish
  \/ GenerateAuthJson
  \/ ExtractRefreshConfig

SpecDoc == InitDoc /\ [][NextDoc]_vars

\* ------------------------------------------------------------------------
\* The vault (auth/vault.rs) and the browser session (browser/capture.rs)
\* ------------------------------------------------------------------------
\* get_vault_key: the Keychain holds one key for the whole run
VAULT_KEY == "key-1"

\* the nonces encrypt can draw, and the instants Utc::now can return
Nonces == {"n1", "n2"}
Instants == {"t1", "t2"}

\* encrypt: the nonce packed with the ciphertext of the plaintext under key
encrypt(plaintext, key, nonce) ==
  [nonce |-> nonce, sealed_with |-> key, plaintext |-> plaintext]

\* decrypt: the plaintext, None (an Err) under another key
decrypt(packed, key) ==
  IF packed.sealed_with = key THEN Some(packed.plaintext) ELSE None

\* the rows of the credentials table; none while vault.db does not exist
vault_rows(table) == IF table = None THEN EmptyMap ELSE Val(table)

\* the map of a descriptor field, empty when the field is absent
map_or_empty(field) == IF field = None THEN EmptyMap ELSE Val(field)

\* the table after vault_store(service, base_url, auth_method, headers,
\* cookies): INSERT OR REPLACE of the encrypted, serialized VaultEntry
vault_store(table, service, base_url, auth_method, hdrs, cks, nonce, now) ==
  LET entry == [service |-> service, base_url |-> base_url,
                auth_method |-> auth_method, headers |-> hdrs,
                cookies |-> cks, updated_at |-> now]
  IN  Some(MapPut(vault_rows(table), service,
                  [data |-> encrypt(entry, VAULT_KEY, nonce),
                   updated_at |-> now]))

\* vault_get: Ok(None) without file or row, else the decrypted VaultEntry
vault_get(table, service) ==
  IF table = None \/ service \notin DOMAIN vault_rows(table) THEN None
  ELSE decrypt(Val(table)[service].data, VAULT_KEY)

\* vault_export_auth_json: the AuthJson made of the entry, whose JSON text
\* is returned (serde writes an absent field as null and every map entry as
\* it is, so the text is represented by the value it denotes); None
\* without an entry
vault_export_auth_json(table, service) ==
  LET entry == vault_get(table, service) IN
    IF entry = None THEN None
    ELSE Some([service     |-> Val(entry).service,
               base_url    |-> Val(entry).base_url,
               auth_method |-> Val(entry).auth_method,
               headers     |-> NonEmpty(Val(entry).headers),
               cookies     |-> NonEmpty(Val(entry).cookies),
               context     |-> None,
               refresh     |-> None])

RECURSIVE browser_auth_headers(_, _)
\* the loop of extract_browser_auth over the requests: the auth-like
\* headers of the first k requests under their own spelling, later
\* requests overwriting earlier ones
browser_auth_headers(reqs, k) ==
  IF k = 0 THEN EmptyMap
  ELSE LET before == browser_auth_headers(reqs, k - 1)
           hs     == reqs[k].headers
           found  == {h \in DOMAIN hs : is_auth_like_header(ToLower(h))}
       IN  [h \in DOMAIN before \cup found |->
              IF h \in found THEN hs[h] ELSE before[h]]

\* the AuthJson values extract_browser_auth can return for the cookies and
\* requests the browser hands over
extract_browser_auth(domain, browser_cookies, reqs) ==
  LET hdrs == browser_auth_headers(reqs, Len(reqs)) IN
    {[service     |-> derive_service_name(domain),
      base_url    |-> IF StartsWith(domain, "http") THEN domain
                      ELSE "https://" \o domain,
      auth_method |-> label,
      headers     |-> NonEmpty(hdrs),
      cookies     |-> NonEmpty(browser_cookies),
      context     |-> None,
      refresh     |-> None] :
       label \in guess_auth_method(hdrs, browser_cookies)}

\* what the browser session can hand over
BrowserDomains == {"api.acme.com", "https://beta.io"}
BrowserCookies == {EmptyMap, "sid" :> "x"}
BrowserRequests ==
  UNION {[1..n -> {[headers |-> "Authorization" :> "Bearer b"],
                   [headers |-> "Accept" :> "*/*"]}] :
           n \in 0..MaxBrowserRequests}

\* what generate_auth_json is called with before the result is stored
VaultHeaderPairs == {<<"authorization", "t">>, <<"userid", "1">>}
VaultCookiePairs == {<<"sessionid", "s">>, <<"theme", "dark">>}

\* the services the vault is asked about
VaultServices == {"acme", derive_service_name("https://beta.io"), "none"}

DescriptorProducers == {"generate_auth_json", "extract_browser_auth"}

\* the results of generate_auth_json on those arguments
BuiltDescriptors ==
  {generate_auth_json("acme", "https://api.acme.io", "Bearer Token", h, c,
                      EmptyMap) :
     h \in MapsOf(VaultHeaderPairs, MaxHeaders),
     c \in MapsOf(VaultCookiePairs, MaxCookies)}

\* the results of extract_browser_auth on those sessions
BrowserDescriptors ==
  UNION {extract_browser_auth(x[1], x[2], x[3]) :
           x \in BrowserDomains \X BrowserCookies \X BrowserRequests}

\* generate_auth_json builds a descriptor
BuildDescriptor ==
  /\ \E d \in BuiltDescriptors :
       /\ call' = Some([function |-> "generate_auth_json",
                        service |-> d.service])
       /\ ret' = Some([function |-> "generate_auth_json", is_err |-> FALSE,
                       value |-> Some(d)])
  /\ UNCHANGED <<harVars, vaultVars, restVars>>

\* extract_browser_auth builds a descriptor from the browser session
ExtractBrowserAuth ==
  /\ \E d \in BrowserDescriptors :
       /\ call' = Some([function |-> "extract_browser_auth",
                        service |-> d.service])
       /\ ret' = Some([function |-> "extract_browser_auth",
                       is_err |-> FALSE, value |-> Some(d)])
  /\ UNCHANGED <<harVars, vaultVars, restVars>>

\* the caller stores the descriptor just built: its service, base URL,
\* auth method, headers and cookies are the arguments of vault_store
VaultStore ==
  /\ ret # None
  /\ Val(ret).function \in DescriptorProducers
  /\ LET d == Val(Val(ret).value) IN
       /\ \E nonce \in Nonces, now \in Instants :
            vault' = vault_store(vault, d.service, d.base_url, d.auth_method,
                                 map_or_empty(d.headers),
                                 map_or_empty(d.cookies), nonce, now)
       /\ deposited' = MapPut(deposited, d.service, d)
       /\ call' = Some([function |-> "vault_store", service |-> d.service])
       /\ ret' = Some([function |-> "vault_store", is_err |-> FALSE,
                       value |-> None])
  /\ UNCHANGED <<harVars, restVars>>

VaultGet ==
  /\ \E service \in VaultServices :
       /\ call' = Some([function |-> "vault_get", service |-> service])
       /\ ret' = Some([function |-> "vault_get", is_err |-> FALSE,
                       value |-> vault_get(vault, service)])
  /\ UNCHANGED <<harVars, vaultVars, restVars>>

VaultExportAuthJson ==
  /\ \E service \in VaultServices :
       /\ call' = Some([function |-> "vault_export_auth_json",
                        service |-> service])
       /\ ret' = Some([function |-> "vault_export_auth_json",
                       is_err |-> FALSE,
                       value |-> vault_export_auth_json(vault, service)])
  /\ UNCHANGED <<harVars, vaultVars, restVars>>

\* vault_delete: false without file or row, else the row is removed
VaultDelete ==
  /\ \E service \in VaultServices :
       /\ call' = Some([function |-> "vault_delete", service |-> service])
       /\ ret' = Some([function |-> "vault_delete", is_err |-> FALSE,
                       value |-> Some(service \in DOMAIN vault_rows(vault))])
       /\ vault' = IF vault = None THEN None
                   ELSE Some(Restrict(Val(vault),
                                      DOMAIN Val(vault) \ {service}))
       /\ deposited' = Restrict(deposited, DOMAIN deposited \ {service})
  /\ UNCHANGED <<harVars, restVars>>

InitVault == call = None /\ ret = None /\ NoHar

NextVault ==
  \/ BuildDescriptor
  \/ ExtractBrowserAuth
  \/ VaultStore
  \/ VaultGet
  \/ VaultExportAuthJson
  \/ VaultDelete

SpecVault == InitVault /\ [][NextVault]_vars

\* ------------------------------------------------------------------------
\* Properties of parse_har
\* ------------------------------------------------------------------------
\* the results of the running call are available
Returned == pc \in {"done", "auth"}

\* the entry passes the static-asset/skip-path, URL, host, third-party and
\* GET+HTML checks
Survives(entry) ==
  LET u  == UrlParse(entry.request.url)
      ct == get_response_content_type(entry)
  IN  /\ ~is_static_asset(entry.request.url)
      /\ u # None
      /\ Val(u).host # None
      /\ ~is_skipped_domain(Val(Val(u).host))
      /\ ~(/\ entry.request.method = "GET"
           /\ ct # None
           /\ is_html_content_type(Val(ct)))

HostOf(entry) == Val(Val(UrlParse(entry.request.url)).host)

ApiLike(entry) ==
  is_api_like(entry.request.url, entry.request.method, HostOf(entry),
              get_response_content_type(entry))

\* the host shares its last two labels with the host of the seed URL
SeedRelated(host) ==
  /\ seed_domain_of(seed_url) # None
  /\ get_root_domain(host) = get_root_domain(Val(seed_domain_of(seed_url)))

\* C1: running parse_har and generate_auth_json twice on the identical
\* capture and seed yields identical results: the same service, baseUrl,
\* authMethod, order of baseUrls and of the endpoint keys, the same AuthJson
C1_SameInputSameResult ==
  (/\ pc = "auth"
   /\ prev # None
   /\ Val(prev).har = har
   /\ Val(prev).seed_url = seed_url)
    => /\ Val(api).service = Val(prev).api.service
       /\ Val(api).base_url = Val(prev).api.base_url
       /\ Val(api).auth_method = Val(prev).api.auth_method
       /\ Val(api).base_urls = Val(prev).api.base_urls
       /\ Val(api).endpoint_keys = Val(prev).api.endpoint_keys
       /\ Val(auth) = Val(prev).auth

\* C2: an exchange that survives the four drop checks is dropped if and
\* only if it is not API-like, the target-domain set is non-empty and its
\* host is neither in that set nor seed-related; otherwise it is accepted,
\* and the first exchange to survive the checks is always accepted
C2_DroppedIffAllThree ==
  [][(pc = "loop" /\ idx <= Len(har) /\ Survives(har[idx])) =>
       LET e == har[idx]
           allThree == /\ ~ApiLike(e)
                       /\ target_domains # {}
                       /\ HostOf(e) \notin target_domains
                       /\ ~SeedRelated(HostOf(e))
           accepted == /\ Len(requests') = Len(requests) + 1
                       /\ requests'[Len(requests')].url = e.request.url
                       /\ SubSeq(requests', 1, Len(requests)) = requests
           dropped  == requests' = requests
                         /\ target_domains' = target_domains
       IN  /\ allThree => dropped
           /\ ~allThree => accepted
           /\ (\A j \in 1..(idx - 1) : ~Survives(har[j])) => accepted
    ]_vars

\* a surviving exchange was dropped after another one had been accepted, and
\* a non-API-like one was accepted
C2_Witness ==
  /\ \E j \in 1..Len(verdicts) :
       /\ Survives(har[j])
       /\ verdicts[j] = "not_target"
       /\ \E k \in 1..(j - 1) : verdicts[k] = "accept"
  /\ \E j \in 1..Len(verdicts) :
       Survives(har[j]) /\ ~ApiLike(har[j]) /\ verdicts[j] = "accept"

\* C3: every request of ApiDataset.requests passed the four drop checks:
\* its path neither ends with a static-asset extension nor starts with a
\* skip-path prefix, its host contains no third-party domain, and it is not
\* a GET answered with HTML; a capture of one third-party and one
\* first-party API exchange yields only the first-party one
C3_RequestsPassedDropChecks ==
  pc = "done" =>
    LET reqs == Val(api).requests IN
      /\ \A k \in 1..Len(reqs) :
           LET r     == reqs[k]
               lower == ToLower(r.domain)
           IN  /\ \A ext \in STATIC_EXTS : ~EndsWith(r.path, ext)
               /\ \A prefix \in SKIP_PATHS : ~StartsWith(r.path, prefix)
               /\ \A skip \in SKIP_DOMAINS : ~Contains(lower, skip)
               /\ ~(/\ r.method = "GET"
                    /\ r.response_content_type # None
                    /\ LET ct == ToLower(Val(r.response_content_type)) IN
                         \/ Contains(ct, "text/html")
                         \/ Contains(ct, "application/xhtml"))
      /\ (Len(har) = 2 /\ {har[1], har[2]} = {E_ga, E_orders})
           => /\ Len(reqs) = 1
              /\ reqs[1].domain = "api.example.com"
              /\ reqs[1].url = E_orders.request.url

\* the two-exchange capture of the example has been parsed
C3_Witness ==
  /\ pc = "done"
  /\ har = <<E_ga, E_orders>>
  /\ seed_url = Some("https://example.com/login")
  /\ Len(Val(api).requests) = 1

RECURSIVE AcceptedUrls(_, _, _)
\* the URLs of the accepted ones among the first n entries, in capture
\* order; vs are the verdicts on the entries
AcceptedUrls(entries, vs, n) ==
  IF n = 0 THEN <<>>
  ELSE IF vs[n] = "accept"
  THEN Append(AcceptedUrls(entries, vs, n - 1), entries[n].request.url)
  ELSE AcceptedUrls(entries, vs, n - 1)

UrlsOf(reqs) == [k \in 1..Len(reqs) |-> reqs[k].url]

\* C4: admission depends on the order: a non-API-like exchange that passes
\* the drop checks is accepted when the target-domain set is still empty,
\* and, without a seed, dropped when only exchanges of other domains were
\* accepted before it; entries are processed one by one in capture order
\* and requests keeps that order
C4_OrderDependentAdmission ==
  [][/\ (pc = "loop" /\ idx <= Len(har) /\ Survives(har[idx])
          /\ ~ApiLike(har[idx])) =>
          /\ target_domains = {} =>
               requests' = Append(requests, parsed_request(har[idx]))
          /\ (/\ target_domains # {}
              /\ HostOf(har[idx]) \notin target_domains
              /\ seed_url = None) => requests' = requests
     /\ (pc = "loop" /\ pc' = "loop") => idx' = idx + 1
     /\ (pc' = "loop") => /\ Len(verdicts') = idx' - 1
                          /\ UrlsOf(requests') = AcceptedUrls(har', verdicts', idx' - 1)
    ]_vars

\* two calls on the same exchanges in opposite orders accepted different
\* sets of requests
C4_Witness ==
  /\ pc = "auth"
  /\ prev # None
  /\ Val(prev).har = Reverse(har)
  /\ Val(prev).seed_url = None
  /\ {r.url : r \in {requests[k] : k \in 1..Len(requests)}}
       # {Val(prev).api.requests[k].url :
            k \in 1..Len(Val(prev).api.requests)}

\* ------------------------------------------------------------------------
\* Properties of guess_auth_method
\* ------------------------------------------------------------------------
LowerKeys(m) == \A k \in DOMAIN m : ToLower(k) = k

\* the name test of the rules that embed a header name
C5_NameRule(i, h) ==
  CASE i = 2 -> \/ Contains(h, "api-key") \/ Contains(h, "apikey")
                \/ h = "x-api-key" \/ h = "x-key"
    [] i = 3 -> \/ Contains(h, "jwt") \/ Contains(h, "id-token")
                \/ Contains(h, "id_token")
    [] i = 5 -> \/ Contains(h, "session") \/ Contains(h, "csrf")
                \/ Contains(h, "xsrf")
    [] i = 8 -> Contains(h, "oauth")
    [] i = 9 -> Contains(h, "auth") \/ Contains(h, "token")
    [] i = 10 -> StartsWith(h, "x-")

C5_NamePrefix(i) ==
  CASE i = 2 -> "API Key (" [] i = 3 -> "JWT (" [] i = 5 -> "Session Token ("
    [] i = 8 -> "OAuth (" [] i = 9 -> "Custom Token ("
    [] i = 10 -> "Custom Header ("

\* the cookies whose name is entry k of the priority list, compared exactly
\* or, when fold is set, after lowercasing the cookie's name
C5_ListedCookies(cks, k, fold) ==
  {c \in DOMAIN cks : (IF fold THEN ToLower(c) ELSE c) = AUTH_COOKIE_NAMES[k]}

C5_AuthLikeCookies(cks) ==
  {c \in DOMAIN cks :
     \/ Contains(ToLower(c), "auth") \/ Contains(ToLower(c), "token")
     \/ Contains(ToLower(c), "session")}

\* the condition of rule i of the decision list
C5_Applies(i, hdrs, cks, fold) ==
  CASE i = 1 -> \E h \in DOMAIN hdrs : StartsWith(ToLower(hdrs[h]), "bearer ")
    [] i \in {2, 3, 5, 8, 9, 10} -> \E h \in DOMAIN hdrs : C5_NameRule(i, h)
    [] i = 4 -> "authorization" \in DOMAIN hdrs
    [] i = 6 -> \E h \in DOMAIN hdrs : Contains(h, "amz")
    [] i = 7 -> "mudra" \in DOMAIN hdrs
    [] i = 11 -> \E k \in 1..Len(AUTH_COOKIE_NAMES) :
                   C5_ListedCookies(cks, k, fold) # {}
    [] i = 12 -> C5_AuthLikeCookies(cks) # {}
    [] OTHER -> TRUE

C5_FirstRule(hdrs, cks, fold) ==
  CHOOSE i \in 1..13 :
    /\ C5_Applies(i, hdrs, cks, fold)
    /\ \A j \in 1..(i - 1) : ~C5_Applies(j, hdrs, cks, fold)

\* the labels rule i allows
C5_Labels(i, hdrs, cks, fold) ==
  CASE i = 1 -> {"Bearer Token"}
    [] i \in {2, 3, 5, 8, 9, 10} ->
         {C5_NamePrefix(i) \o h \o ")" :
            h \in {x \in DOMAIN hdrs : C5_NameRule(i, x)}}
    [] i = 4 ->
         LET v == ToLower(hdrs["authorization"]) IN
           IF StartsWith(v, "basic ") THEN {"Basic Auth"}
           ELSE IF StartsWith(v, "digest ") THEN {"Digest Auth"}
           ELSE {"Authorization Header"}
    [] i = 6 -> {"AWS Signature"}
    [] i = 7 -> {"Mudra Token"}
    [] i = 11 ->
         LET k == CHOOSE k \in 1..Len(AUTH_COOKIE_NAMES) :
                    /\ C5_ListedCookies(cks, k, fold) # {}
                    /\ \A j \in 1..(k - 1) :
                         C5_ListedCookies(cks, j, fold) = {}
         IN  {"Cookie-based (" \o AUTH_COOKIE_NAMES[k] \o ")"}
    [] i = 12 ->
         {"Cookie-based (" \o c \o ")" : c \in C5_AuthLikeCookies(cks)}
    [] OTHER -> {"Unknown (may need login)"}

\* C5 as claimed: for lowercase header keys and any cookies, the label is
\* that of the first rule of the list 1-13 that applies, the name inside a
\* label is the name of a header or cookie satisfying that rule, and the
\* label is Unknown exactly when no rule applies; rule 11 asks for a cookie
\* whose name is exactly an entry of the priority list
C5_FirstRuleExactCookie ==
  (ret # None /\ LowerKeys(Val(call).headers)) =>
    LET hdrs == Val(call).headers
        cks  == Val(call).cookies
        i    == C5_FirstRule(hdrs, cks, FALSE)
    IN  /\ Val(ret) \in C5_Labels(i, hdrs, cks, FALSE)
        /\ (Val(ret) = "Unknown (may need login)") <=> (i = 13)

\* C5 as amended: the same, except that rule 11 compares the lowercased
\* cookie name with the priority list and its label embeds the name as the
\* list spells it (lowercase), which need not be the cookie's own spelling;
\* rule 12 tests the lowercased cookie name and embeds the cookie's own
C5_FirstRuleFoldedCookie ==
  (ret # None /\ LowerKeys(Val(call).headers)) =>
    LET hdrs == Val(call).headers
        cks  == Val(call).cookies
        i    == C5_FirstRule(hdrs, cks, TRUE)
    IN  /\ Val(ret) \in C5_Labels(i, hdrs, cks, TRUE)
        /\ (Val(ret) = "Unknown (may need login)") <=> (i = 13)
        /\ (i > 10) <=> (\A j \in 1..10 : ~C5_Applies(j, hdrs, cks, TRUE))

\* a cookie rule decided although headers were present, and the label of
\* rule 11 carries the list's spelling of a cookie spelled otherwise
C5_Witness ==
  /\ ret = Some("Cookie-based (sessionid)")
  /\ DOMAIN Val(call).cookies = {"SessionID", "theme"}
  /\ DOMAIN Val(call).headers = {"accept"}

\* ------------------------------------------------------------------------
\* Properties of the service and base URL chosen by parse_har
\* ------------------------------------------------------------------------
\* the host of the seed URL, None when there is no seed or it has no host
SeedHost ==
  IF seed_url = None \/ UrlParse(Val(seed_url)) = None THEN None
  ELSE Val(UrlParse(Val(seed_url))).host

\* scheme://host of a seed URL that has a host
SeedBase == Val(UrlParse(Val(seed_url))).scheme \o "://" \o Val(SeedHost)

ApiLooking(d) ==
  \/ Contains(d, "api.") \/ Contains(d, "quote") \/ Contains(d, "service")
  \/ StartsWith(d, "dev-")

\* the domains of D with the most requests in the returned dataset
MostFrequent(D) ==
  LET reqs == Val(api).requests
      n(d) == Cardinality({k \in 1..Len(reqs) : reqs[k].domain = d})
  IN  {d \in D : \A e \in D : n(e) <= n(d)}

\* C6: (service, baseUrl) is chosen by the first applicable case: (a) a
\* most frequent API-looking accepted domain B and a seed host S exist:
\* name of S with https://B when B and S share their last two labels, else
\* name of S with the seed's scheme://host; (b) only S exists: name of S and
\* the seed's scheme://host; (c) no S but accepted domains: a most frequent
\* domain gives the name and https://domain; (d) the fixed fallback.  So
\* with a seed host the name always derives from it
C6_ServiceAndBaseUrl ==
  Returned =>
    LET svc  == Val(api).service
        bu   == Val(api).base_url
        apis == {d \in target_domains : ApiLooking(d)}
    IN  /\ (apis # {} /\ SeedHost # None) =>
             \E B \in MostFrequent(apis) :
               /\ svc = derive_service_name(Val(SeedHost))
               /\ bu = IF get_root_domain(B) = get_root_domain(Val(SeedHost))
                       THEN "https://" \o B
                       ELSE SeedBase
        /\ (apis = {} /\ SeedHost # None) =>
             /\ svc = derive_service_name(Val(SeedHost))
             /\ bu = SeedBase
        /\ (SeedHost = None /\ target_domains # {}) =>
             \E d \in MostFrequent(target_domains) :
               svc = derive_service_name(d) /\ bu = "https://" \o d
        /\ (SeedHost = None /\ target_domains = {}) =>
             svc = "unknown-api" /\ bu = "https://api.example.com"
        /\ SeedHost # None => svc = derive_service_name(Val(SeedHost))

\* two API-looking domains were accepted, one more often than the other,
\* and the seed shares its root with the more frequent one
C6_Witness ==
  /\ pc = "done"
  /\ SeedHost = Some("example.com")
  /\ Cardinality({d \in target_domains : ApiLooking(d)}) = 2
  /\ MostFrequent({d \in target_domains : ApiLooking(d)})
       = {"api.example.com"}
  /\ Val(api).service = "example"
  /\ Val(api).base_url = "https://api.example.com"

\* C8 as claimed: an empty exchange list gives requests = [], service
\* "unknown-api", baseUrl "https://api.example.com" and authHeaders = {},
\* for every input
C8_EmptyCaptureFallback ==
  (Returned /\ har = <<>>) =>
    /\ Val(api).requests = <<>>
    /\ Val(api).service = "unknown-api"
    /\ Val(api).base_url = "https://api.example.com"
    /\ DOMAIN Val(api).auth_headers = {}

\* C8 as amended: an empty exchange list gives requests = [] and
\* authHeaders = {}; service and baseUrl are the fixed fallback when the
\* seed URL is absent or has no parsable host, and otherwise the name
\* derived from the seed host and the seed's scheme://host
C8_EmptyCaptureSeedOrFallback ==
  (Returned /\ har = <<>>) =>
    /\ Val(api).requests = <<>>
    /\ DOMAIN Val(api).auth_headers = {}
    /\ IF SeedHost = None
       THEN /\ Val(api).service = "unknown-api"
            /\ Val(api).base_url = "https://api.example.com"
       ELSE /\ Val(api).service = derive_service_name(Val(SeedHost))
            /\ Val(api).base_url = SeedBase

\* an empty capture was parsed with a seed that has a host
C8_Witness ==
  /\ pc = "done"
  /\ har = <<>>
  /\ seed_url = Some("http://www.other.io")
  /\ Val(api).service = "other"
  /\ Val(api).base_url = "http://www.other.io"

\* ------------------------------------------------------------------------
\* Properties of derive_service_name
\* ------------------------------------------------------------------------
RECURSIVE DropLeading(_, _)
\* the labels without every leading label equal to l that a dot follows
DropLeading(parts, l) ==
  IF Len(parts) > 1 /\ parts[1] = l THEN DropLeading(Tail(parts), l)
  ELSE parts

\* the labels without a final label of the TLD list that a dot precedes; an
\* empty final label (a trailing dot) goes with it
DropTld(parts) ==
  LET n == Len(parts) IN
    IF n > 1 /\ parts[n] \in TLDS THEN SubSeq(parts, 1, n - 1)
    ELSE IF n > 2 /\ parts[n] = "" /\ parts[n - 1] \in TLDS
    THEN SubSeq(parts, 1, n - 2)
    ELSE parts

NonEmptyName(name) == IF name = "" THEN "unknown-api" ELSE name

\* the name as C7 describes it: at most one leading label removed
C7_OneLabelName(domain) ==
  LET parts == Split(domain, ".")
      p1 == IF Len(parts) > 1 /\ parts[1] \in {"www", "api", "app", "m"}
            THEN Tail(parts) ELSE parts
      p2 == IF Len(p1) > 1 /\ p1[Len(p1)] \in TLDS
            THEN SubSeq(p1, 1, Len(p1) - 1) ELSE p1
  IN  NonEmptyName(ToLower(Join(p2, "-")))

\* the name when every leading www., then api., then app., then m. goes
C7_AllLabelsName(domain) ==
  LET parts == Split(domain, ".")
      p1 == DropLeading(DropLeading(DropLeading(DropLeading(
              parts, "www"), "api"), "app"), "m")
  IN  NonEmptyName(ToLower(Join(DropTld(p1), "-")))

C7_Examples ==
  /\ derive_service_name("api.github.com") = "github"
  /\ derive_service_name("www.stripe.com") = "stripe"
  /\ derive_service_name("app.linear.app") = "linear"

\* C7 as claimed: the name is the domain with one leading label among www,
\* api, app, m removed (at most one), one trailing label of the TLD list
\* removed, dots replaced by hyphens, lowercased; never empty
C7_AtMostOneLabelStripped ==
  ret # None =>
    /\ Val(ret) = C7_OneLabelName(Val(call))
    /\ Val(ret) # ""
    /\ C7_Examples

\* C7 as amended: every leading "www." is removed, then every leading
\* "api.", then every leading "app.", then every leading "m.", so several
\* labels can go; then one trailing label of the TLD list, with a final dot
\* after it if there is one; dots become hyphens, the result is lowercased
\* and an empty result becomes "unknown-api"
C7_LeadingLabelsStripped ==
  ret # None =>
    /\ Val(ret) = C7_AllLabelsName(Val(call))
    /\ Val(ret) # ""
    /\ C7_Examples

\* two different leading labels and a repeated one were removed
C7_Witness ==
  \/ call = Some("www.api.GitHub") /\ ret = Some("github")
  \/ call = Some("m.m.com") /\ ret = Some("com")

\* ------------------------------------------------------------------------
\* Properties of generate_auth_json
\* ------------------------------------------------------------------------
KeysOf(o) == IF o = None THEN {} ELSE DOMAIN Val(o)

\* C9: when an accepted exchange carries the request header X-Tenant-Id
\* with a non-empty value, the AuthJson built from the authHeaders and
\* authInfo of parse_har has that header and its value in context and no
\* such key in headers
C9_TenantIdInContext ==
  pc = "auth" =>
    LET carried ==
          {har[j].request.headers[k] :
             <<j, k>> \in {x \in (1..Len(har)) \X (1..4) :
                           /\ verdicts[x[1]] = "accept"
                           /\ x[2] <= Len(har[x[1]].request.headers)}}
        tenant == {h \in carried :
                     ToLower(h.name) = "x-tenant-id" /\ h.value # ""}
    IN  tenant # {} =>
          /\ \E c \in KeysOf(Val(auth).context) :
               /\ ToLower(c) = "x-tenant-id"
               /\ Val(Val(auth).context)[c] \in {h.value : h \in tenant}
          /\ \A c \in KeysOf(Val(auth).headers) : ToLower(c) # "x-tenant-id"

\* the context test of the descriptor builder
C10_IsContext(k) == \E p \in CONTEXT_PATTERNS : Contains(ToLower(k), p)

RefreshReturned ==
  /\ ret # None
  /\ Val(ret).function = "extract_refresh_config"
  /\ Val(call).har_json.well_formed

\* an exchange qualifies: its lowercased URL holds a path marker, or its
\* lowercased request body holds a grant marker
Qualifies(entry) ==
  \/ \E p \in REFRESH_URL_PATTERNS : Contains(ToLower(entry.request.url), p)
  \/ /\ entry.request.post_data # None
     /\ \E g \in {"grant_type=refresh_token",
                  "\"grant_type\":\"refresh_token\"", "refresh_token="} :
          Contains(ToLower(Val(entry.request.post_data)), g)

\* positions of the qualifying entries of the document of the call
QualifyingEntries ==
  {k \in 1..Len(Val(call).har_json.entries) :
     Qualifies(Val(call).har_json.entries[k])}

\* the earliest qualifying entry
FirstQualifying ==
  Val(call).har_json.entries[
    CHOOSE k \in QualifyingEntries : \A j \in QualifyingEntries : k <= j]

\* the request body is URL-encoded form data
IsFormBody(entry) ==
  /\ entry.request.post_data # None
  /\ Contains(Val(entry.request.post_data), "=")
  /\ ~StartsWith(Val(entry.request.post_data), "{")

\* the key=value pairs of a form body, in order; parts without '=' are none
FormPairs(body) ==
  LET parts == Split(body, "&") IN
    [k \in {i \in 1..Len(parts) : Contains(parts[i], "=")} |->
       LET at == Find(parts[k], "=") IN
         [key |-> Sub(parts[k], 1, at - 1),
          value |-> Sub(parts[k], at + 1, Len(parts[k]))]]

MapRange(m) == {m[k] : k \in DOMAIN m}

\* C11 as claimed: for a qualifying exchange with a form body the template
\* has one entry per key of the form's pairs; every key whose name contains
\* "token" maps to the placeholder, every other key to its captured value;
\* so no captured value of a token-named key appears in the template
C11_TokenKeysMasked ==
  (RefreshReturned /\ QualifyingEntries # {} /\ IsFormBody(FirstQualifying))
  =>
    LET pairs == FormPairs(Val(FirstQualifying.request.post_data))
        tpl   == Val(Val(ret).value).body
    IN  /\ tpl # None
        /\ DOMAIN Val(tpl) = {pairs[i].key : i \in DOMAIN pairs}
        /\ \A i \in DOMAIN pairs :
             IF Contains(pairs[i].key, "token")
             THEN /\ Val(tpl)[pairs[i].key] = REFRESH_PLACEHOLDER
                  /\ pairs[i].value \notin MapRange(Val(tpl))
             ELSE Val(tpl)[pairs[i].key]
                    \in {pairs[j].value :
                           j \in {x \in DOMAIN pairs :
                                    pairs[x].key = pairs[i].key}}

\* C11 as amended: the template has one entry per key of the form's pairs;
\* every key whose lowercased name contains "token" maps to the
\* placeholder, every other key to the value of the last pair with that
\* key; the value captured for a token-named key never stands at that
\* key, though it stays in the template where another key carries it too
C11_TokenKeysMaskedFolded ==
  (RefreshReturned /\ QualifyingEntries # {} /\ IsFormBody(FirstQualifying))
  =>
    LET pairs == FormPairs(Val(FirstQualifying.request.post_data))
        tpl   == Val(Val(ret).value).body
        last(key) == CHOOSE i \in DOMAIN pairs :
                       /\ pairs[i].key = key
                       /\ \A j \in DOMAIN pairs :
                            pairs[j].key = key => j <= i
    IN  /\ tpl # None
        /\ DOMAIN Val(tpl) = {pairs[i].key : i \in DOMAIN pairs}
        /\ \A i \in DOMAIN pairs :
             Val(tpl)[pairs[i].key] =
               IF Contains(ToLower(pairs[i].key), "token")
               THEN REFRESH_PLACEHOLDER
               ELSE pairs[last(pairs[i].key)].value

\* a form with a token key in capitals, a key sent twice and a part
\* without '=' gave its template
C11_Witness ==
  /\ RefreshReturned
  /\ Val(call).har_json.entries = <<E_grant>>
  /\ Val(ret).value # None
  /\ Val(Val(ret).value).body # None
  /\ Val(Val(Val(ret).value).body) =
       ("Refresh_Token" :> REFRESH_PLACEHOLDER) @@ ("state" :> "T1")
         @@ ("scope" :> "w")

\* C12: extract_refresh_config returns the RefreshConfig built from the
\* earliest entry, in capture order over the unfiltered entry list, that
\* qualifies, whether or not parse_har would drop that entry; it returns
\* nothing exactly when no entry qualifies, and later qualifying entries
\* do not change the result
C12_EarliestQualifyingEntry ==
  RefreshReturned =>
    LET entries == Val(call).har_json.entries
        value   == Val(ret).value
    IN  /\ (value = None) <=> (QualifyingEntries = {})
        /\ QualifyingEntries # {} =>
             LET k == CHOOSE k \in QualifyingEntries :
                        \A j \in QualifyingEntries : k <= j
             IN  /\ value = entry_refresh_config(entries, k)
                 /\ Val(value).endpoint = entries[k].request.url
                 /\ Val(value).method = entries[k].request.method

\* parse_har dropped the first entry, a later entry qualifies as well, and
\* the config is that of the first
C12_Witness ==
  /\ RefreshReturned
  /\ pc = "auth"
  /\ Len(har) = 2
  /\ verdicts[1] # "accept"
  /\ QualifyingEntries = {1, 2}
  /\ har[1].request.url # har[2].request.url
  /\ Val(Val(ret).value).endpoint = har[1].request.url

\* C13: when extract_refresh_config finds a refresh template for a
\* capture, the AuthJson that generate_auth_json builds for that capture
\* carries that template in its refresh field; refresh is absent only when
\* no exchange of the capture qualifies
C13_DescriptorCarriesTemplate ==
  pc = "auth" =>
    /\ Val(auth).refresh = extract_refresh_config(Val(call).har_json)
    /\ (Val(auth).refresh = None) <=> (QualifyingEntries = {})

\* C14: every entry point given a document that does not deserialize ends
\* with an input error rather than a result, and parse_har returns no
\* dataset and processes no exchange
C14_MalformedDocumentFails ==
  (call # None /\ ~Val(call).har_json.well_formed) =>
    /\ ret # None => Val(ret).is_err
    /\ pc = "idle" /\ api = None /\ verdicts = <<>> /\ requests = <<>>

\* ------------------------------------------------------------------------
\* Properties of the auth-info and endpoint maps of parse_har
\* ------------------------------------------------------------------------
\* <<j, k>>: header k of accepted exchange j, in capture order
AcceptedHeaders ==
  UNION {{<<j, k>> : k \in 1..Len(har[j].request.headers)} :
           j \in {i \in 1..Len(verdicts) : verdicts[i] = "accept"}}

HeaderAt(x) == har[x[1]].request.headers[x[2]]

Before(x, y) == x[1] < y[1] \/ (x[1] = y[1] /\ x[2] < y[2])

\* the occurrences of the header named n (lowercased) with a non-empty
\* value, n starting with x- and not a standard header
CustomOccurrences(n) ==
  {x \in AcceptedHeaders :
     /\ ToLower(HeaderAt(x).name) = n
     /\ HeaderAt(x).value # ""
     /\ StartsWith(n, "x-")
     /\ n \notin STANDARD_HEADERS}

\* every occurrence of the header named n
Occurrences(n) == {x \in AcceptedHeaders : ToLower(HeaderAt(x).name) = n}

FirstOf(X) == CHOOSE x \in X : \A y \in X : x = y \/ Before(x, y)
LastOf(X) == CHOOSE x \in X : \A y \in X : x = y \/ Before(y, x)

CustomNames ==
  {n \in {ToLower(HeaderAt(x).name) : x \in AcceptedHeaders} :
     CustomOccurrences(n) # {}}

\* C16 as claimed: for any header whose lowercased name starts with x-, is
\* not a standard header and has a non-empty value, authInfo holds under
\* request_header_{name} the value of the first such occurrence among the
\* accepted exchanges; later occurrences never overwrite it
C16_FirstOccurrenceWins ==
  Returned =>
    \A n \in CustomNames :
      /\ ("request_header_" \o n) \in DOMAIN Val(api).auth_info
      /\ Val(api).auth_info["request_header_" \o n]
           = HeaderAt(FirstOf(CustomOccurrences(n))).value

\* C16 as amended: that holds for the x- headers that are neither
\* auth-like nor among the context header names; for an x- header that is
\* auth-like or a context header name every occurrence overwrites the
\* entry, so authInfo holds the value of its last occurrence
C16_FirstOccurrenceWinsUnlessTagged ==
  Returned =>
    \A n \in CustomNames :
      /\ ("request_header_" \o n) \in DOMAIN Val(api).auth_info
      /\ Val(api).auth_info["request_header_" \o n]
           = IF is_auth_like_header(n) \/ n \in CONTEXT_HEADER_NAMES
             THEN HeaderAt(LastOf(Occurrences(n))).value
             ELSE HeaderAt(FirstOf(CustomOccurrences(n))).value

\* two accepted exchanges carried x-custom and x-tenant-id with different
\* values: the first x-custom and the last x-tenant-id were kept
C16_Witness ==
  /\ pc = "done"
  /\ har = <<E_orders, E_orders2>>
  /\ verdicts = <<"accept", "accept">>
  /\ Val(api).auth_info["request_header_x-custom"] = "1"
  /\ Val(api).auth_info["request_header_x-tenant-id"] = "7"

\* the keys of the requests in order of first appearance
RECURSIVE FirstSeenKeys(_, _)
FirstSeenKeys(reqs, k) ==
  IF k = 0 THEN <<>>
  ELSE LET before == FirstSeenKeys(reqs, k - 1)
           key    == reqs[k].domain \o ":" \o reqs[k].path
       IN  IF \E i \in 1..Len(before) : before[i] = key THEN before
           ELSE Append(before, key)

\* each key maps to exactly the requests with that host and path, in
\* capture order
EndpointsGrouped ==
  Returned =>
    LET reqs == Val(api).requests
        eps  == Val(api).endpoints
        at(key) == {k \in 1..Len(reqs) :
                      reqs[k].domain \o ":" \o reqs[k].path = key}
    IN  /\ DOMAIN eps = {reqs[k].domain \o ":" \o reqs[k].path :
                           k \in 1..Len(reqs)}
        /\ \A key \in DOMAIN eps :
             /\ Len(eps[key]) = Cardinality(at(key))
             /\ \A i \in 1..Len(eps[key]) :
                  \E k \in at(key) :
                    /\ eps[key][i] = reqs[k]
                    /\ Cardinality({j \in at(key) : j <= k}) = i

\* C17: endpoints maps each key "{host}:{path}" to exactly the accepted
\* requests with that host and path, in capture order; every accepted
\* request is in exactly one group, so the group sizes sum to the number
\* of requests; and the keys are enumerated in order of first appearance
C17_EndpointsGroupedInOrder ==
  Returned =>
    /\ EndpointsGrouped
    /\ Val(api).endpoint_keys
         = FirstSeenKeys(Val(api).requests, Len(Val(api).requests))

\* ------------------------------------------------------------------------
\* Properties of generate_auth_json: Mudra and cookies
\* ------------------------------------------------------------------------
\* C18: whenever the auth headers include a header named mudra in any
\* letter case whose value contains "--", the context of the AuthJson has
\* key userId whose value is the part of the header value before the first
\* "--"; when the value has no "--" no userId is added
C18_MudraUserId ==
  ret # None =>
    LET hdrs   == Val(call).auth_headers
        info   == Val(call).auth_info
        ctx    == Val(ret).context
        mudras == {k \in DOMAIN hdrs : ToLower(k) = "mudra"}
        split  == {k \in mudras : Contains(hdrs[k], "--")}
    IN  /\ split # {} =>
             /\ "userId" \in KeysOf(ctx)
             /\ Val(ctx)["userId"]
                  \in {Sub(hdrs[k], 1, Find(hdrs[k], "--") - 1) : k \in split}
        /\ (mudras # {} /\ split = {} /\ "userId" \in KeysOf(ctx)) =>
             \/ "userId" \in DOMAIN hdrs
             \/ "request_header_userId" \in DOMAIN info

\* C19: the cookies of the AuthJson are exactly the entries of the input
\* cookie mapping whose lowercased name contains one of session, token,
\* auth, jwt, access, refresh, csrf, xsrf, sid, id_token, values
\* unchanged: none that matches is left out, none that does not is kept
C19_CookiesFiltered ==
  ret # None =>
    LET cks  == Val(call).cookies
        kept == {n \in DOMAIN cks :
                   \E p \in {"session", "token", "auth", "jwt", "access",
                             "refresh", "csrf", "xsrf", "sid", "id_token"} :
                     Contains(ToLower(n), p)}
    IN  /\ KeysOf(Val(ret).cookies) = kept
        /\ KeysOf(Val(ret).cookies) \subseteq DOMAIN cks
        /\ \A n \in kept : Val(Val(ret).cookies)[n] = cks[n]

\* a cookie named in capitals was kept and one that matches nothing was
\* left out
C19_Witness ==
  /\ ret # None
  /\ DOMAIN Val(call).cookies = {"SID", "lang"}
  /\ Val(ret).cookies = Some("SID" :> "x")

\* ------------------------------------------------------------------------
\* Properties of the vault and of the descriptors produced
\* ------------------------------------------------------------------------
\* a call of the named function has returned a value for a service whose
\* descriptor was stored and neither replaced since nor deleted
RetrievedBy(function) ==
  /\ ret # None
  /\ Val(ret).function = function
  /\ Val(call).service \in DOMAIN deposited

\* the VaultEntry carries the descriptor's service, base URL, auth method,
\* headers and cookies
EntryCarries(entry, d) ==
  /\ entry.service = d.service
  /\ entry.base_url = d.base_url
  /\ entry.auth_method = d.auth_method
  /\ entry.headers = map_or_empty(d.headers)
  /\ entry.cookies = map_or_empty(d.cookies)

\* vault_get returns the entry of the descriptor stored last
VaultGetReturnsStored ==
  RetrievedBy("vault_get") =>
    /\ Val(ret).value # None
    /\ EntryCarries(Val(Val(ret).value), deposited[Val(call).service])

\* C15: a descriptor stored in the vault and then retrieved for the same
\* service, with no store or delete for that service in between, comes back
\* unchanged - service, baseUrl, authMethod, headers, cookies, context and
\* refresh - from vault_get (in the fields a VaultEntry has) and from
\* vault_export_auth_json; a later store for the service replaces the
\* earlier one
C15_VaultRoundTrip ==
  /\ VaultGetReturnsStored
  /\ RetrievedBy("vault_export_auth_json") =>
       Val(ret).value = Some(deposited[Val(call).service])

\* the functions that produce an AuthJson
AuthJsonProducers ==
  {"generate_auth_json", "extract_browser_auth", "vault_export_auth_json"}

\* the Option is None or holds a non-empty map
AbsentOrNonEmpty(field) == field = None \/ DOMAIN Val(field) # {}

\* C20: in every AuthJson produced by generate_auth_json,
\* extract_browser_auth or vault_export_auth_json, each of headers, cookies
\* and context is absent or a non-empty map, never present and empty
C20_AbsentOrNonEmpty ==
  (ret # None /\ Val(ret).function \in AuthJsonProducers
     /\ Val(ret).value # None) =>
    LET d == Val(Val(ret).value) IN
      /\ AbsentOrNonEmpty(d.headers)
      /\ AbsentOrNonEmpty(d.cookies)
      /\ AbsentOrNonEmpty(d.context)

\* vault_export_auth_json has returned a descriptor without headers and
\* with cookies, made of an entry stored with an empty headers map
C20_Witness ==
  /\ RetrievedBy("vault_export_auth_json")
  /\ Val(ret).value # None
  /\ Val(Val(ret).value).headers = None
  /\ Val(Val(ret).value).cookies # None
  /\ Val(vault_get(vault, Val(call).service)).headers = EmptyMap

\* ------------------------------------------------------------------------
\* Properties of parse_har calls made one after another and in parallel
\* ------------------------------------------------------------------------
\* the call with these locals has returned a value that parse_har can
\* return for its batch and seed when it runs alone
ReturnsAsAlone(l) ==
  l.pc = "done" => Val(l.api) \in parse_har_results(l.har, l.seed_url)

\* C21: the result of a parse_har call on a batch is a result of the call
\* run alone on that batch and seed, whether the call runs first, after
\* another call of its thread, or interleaved with the calls of other
\* threads on other batches: every accumulator starts empty in each call
\* and no call reads what another wrote
C21_ResultAsAlone ==
  /\ ReturnsAsAlone(Running)
  /\ \A k \in 1..Len(parked) : ReturnsAsAlone(parked[k])

\* a call has returned accepted requests after an earlier call of its
\* thread that accepted requests of another host, while the call of another
\* thread is inside its loop with a request accepted
C21_Witness ==
  /\ pc = "done"
  /\ requests # <<>>
  /\ prev # None
  /\ Val(prev).api.requests # <<>>
  /\ Val(prev).har # har
  /\ target_domains \cap {r.domain : r \in
                            {Val(prev).api.requests[k] :
                               k \in 1..Len(Val(prev).api.requests)}} = {}
  /\ Len(parked) > 0
  /\ parked[1].pc = "loop"
  /\ parked[1].idx = 2
  /\ parked[1].requests # <<>>

\* ------------------------------------------------------------------------
\* Properties of the auth-header keys
\* ------------------------------------------------------------------------
\* the headers of the entries accepted so far whose name starts with ':'
\* and contains an auth-like pattern
AuthLikePseudoHeaders ==
  {<<j, k>> \in (1..Len(verdicts)) \X (1..4) :
     /\ verdicts[j] = "accept"
     /\ k <= Len(har[j].request.headers)
     /\ Sub(har[j].request.headers[k].name, 1, 1) = ":"
     /\ \E p \in AUTH_HEADER_PATTERNS :
          Contains(ToLower(har[j].request.headers[k].name), p)}

\* C22: every key of authHeaders is lowercase and none starts with ':',
\* also when an accepted exchange carries a pseudo-header whose name
\* contains an auth-like pattern, such as ':authority'
C22_AuthHeaderKeysLowerNoPseudo ==
  /\ \A k \in DOMAIN auth_headers :
       /\ k = ToLower(k)
       /\ Sub(k, 1, 1) # ":"
  /\ api # None =>
       \A k \in DOMAIN Val(api).auth_headers :
         /\ k = ToLower(k)
         /\ Sub(k, 1, 1) # ":"

\* parse_har has returned auth headers for a capture in which an accepted
\* exchange carries ':authority' and a header spelled with capitals
C22_Witness ==
  /\ pc = "done"
  /\ AuthLikePseudoHeaders # {}
  /\ "authorization" \in DOMAIN Val(api).auth_headers
  /\ \E j \in 1..Len(har) :
       /\ verdicts[j] = "accept"
       /\ \E k \in 1..Len(har[j].request.headers) :
            har[j].request.headers[k].name = "Authorization"

\* ------------------------------------------------------------------------
\* Properties of the token path and the expiry
\* ------------------------------------------------------------------------
\* the response body of the entry is JSON with the field
HasField(entry, field) ==
  /\ entry.response.content # None
  /\ JsonParse(Val(entry.response.content)) # None
  /\ field \in DOMAIN Val(JsonParse(Val(entry.response.content)))

\* the integer the field holds, None when the field is missing or holds
\* something else
IntegerOf(entry, field) ==
  IF HasField(entry, field)
       /\ Val(JsonParse(Val(entry.response.content)))[field].kind = "number"
  THEN Some(Val(JsonParse(Val(entry.response.content)))[field].int)
  ELSE None

\* C23: for a qualifying refresh exchange, tokenPath is "access_token" if
\* the JSON response has that field, else "token", else "id_token", else
\* absent; expiresIn is the integer of expires_in, else of expiresIn, else
\* absent; both are absent when the response body is missing or not JSON;
\* the RefreshConfig carries the URL and the method of the exchange
C23_TokenPathAndExpiry ==
  (RefreshReturned /\ QualifyingEntries # {}) =>
    /\ Val(ret).value # None
    /\ LET e   == FirstQualifying
           cfg == Val(Val(ret).value)
       IN  /\ cfg.endpoint = e.request.url
           /\ cfg.method = e.request.method
           /\ cfg.token_path =
                (IF HasField(e, "access_token") THEN Some("access_token")
                 ELSE IF HasField(e, "token") THEN Some("token")
                 ELSE IF HasField(e, "id_token") THEN Some("id_token")
                 ELSE None)
           /\ cfg.expires_in =
                (IF IntegerOf(e, "expires_in") # None
                 THEN IntegerOf(e, "expires_in")
                 ELSE IntegerOf(e, "expiresIn"))
           /\ (e.response.content = None
                  \/ JsonParse(Val(e.response.content)) = None)
                => cfg.token_path = None /\ cfg.expires_in = None

\* the config returned is read from a response that has the three token
\* fields and the two expiry fields
C23_Witness ==
  /\ RefreshReturned
  /\ QualifyingEntries # {}
  /\ FirstQualifying = E_all
  /\ Val(Val(ret).value).token_path = Some("access_token")
  /\ Val(Val(ret).value).expires_in = Some(3600)

\* ------------------------------------------------------------------------
\* Properties of the base URLs
\* ------------------------------------------------------------------------
\* the text is scheme://host: a scheme, "://", a host, and nothing after it
IsSchemeAndHost(u) ==
  LET k    == Find(u, "://")
      host == Sub(u, k + 3, Len(u))
  IN  /\ k > 1
      /\ \A i \in 1..(k - 1) : Sub(u, i, i) \in SchemeChars
      /\ host # ""
      /\ \A i \in 1..Len(host) : Sub(host, i, i) \notin {"/", "?", "#"}

\* C24: for every capture and seed, baseUrl and every member of baseUrls
\* is scheme://host, without path, query or fragment
C24_BaseUrlsAreSchemeAndHost ==
  /\ \A u \in base_urls : IsSchemeAndHost(u)
  /\ api # None =>
       /\ IsSchemeAndHost(Val(api).base_url)
       /\ \A k \in 1..Len(Val(api).base_urls) :
            IsSchemeAndHost(Val(api).base_urls[k])

\* parse_har has returned the seed's scheme and host as baseUrl for a seed
\* with a path, and a baseUrls member taken from a URL with path and query
C24_Witness ==
  /\ pc = "done"
  /\ seed_url = Some("https://example.com/login")
  /\ Val(api).base_url = "https://example.com"
  /\ \E j \in 1..Len(har) :
       /\ verdicts[j] = "accept"
       /\ Contains(har[j].request.url, "?")
  /\ Len(Val(api).base_urls) > 0

\* ------------------------------------------------------------------------
\* Properties of dropped exchanges
\* ------------------------------------------------------------------------
RECURSIVE AcceptedPrefix(_)
\* the accepted ones among the first k entries of the capture, in order
AcceptedPrefix(k) ==
  IF k = 0 THEN <<>>
  ELSE IF verdicts[k] = "accept" THEN Append(AcceptedPrefix(k - 1), har[k])
  ELSE AcceptedPrefix(k - 1)

\* the accumulators of the running call
Accumulators ==
  [requests |-> requests, auth_headers |-> auth_headers,
   cookies |-> cookies, auth_info |-> auth_info, base_urls |-> base_urls,
   target_domains |-> target_domains]

\* one of the entries sends the header, the name compared in lowercase
SentHeader(entries, name, value) ==
  \E j \in 1..Len(entries) :
    \E k \in 1..Len(entries[j].request.headers) :
      /\ ToLower(entries[j].request.headers[k].name) = name
      /\ entries[j].request.headers[k].value = value

\* one of the entries sends the cookie
SentCookie(entries, name, value) ==
  \E j \in 1..Len(entries) :
    /\ entries[j].request.cookies # None
    /\ \E k \in 1..Len(Val(entries[j].request.cookies)) :
         /\ Val(entries[j].request.cookies)[k].name = name
         /\ Val(entries[j].request.cookies)[k].value = value

\* C25: a dropped exchange changes nothing.  After any number of entries
\* the requests are those of the accepted entries and every accumulator is
\* what the loop gives on the accepted entries alone; the loop ends on the
\* capture as it ends on the capture without its dropped exchanges, and
\* parse_har returns a result of the latter; every auth header and cookie
\* is sent by an accepted exchange
C25_DroppedExchangeChangesNothing ==
  pc \in {"loop", "done", "auth"} =>
    LET kept   == AcceptedPrefix(Len(verdicts))
        locals == loop_locals(kept, seed_url, Len(kept))
    IN
      /\ Len(requests) = Len(kept)
      /\ \A j \in 1..Len(kept) : requests[j].url = kept[j].request.url
      /\ Accumulators = locals
      /\ \A k \in DOMAIN auth_headers : SentHeader(kept, k, auth_headers[k])
      /\ \A c \in DOMAIN cookies : SentCookie(kept, c, cookies[c])
      /\ pc = "done" =>
           /\ loop_locals(har, seed_url, Len(har)) = locals
           /\ Val(api) \in api_data(locals, seed_url)

\* parse_har has returned for a capture whose first exchange was accepted
\* and whose second, carrying an auth-like header, was dropped
C25_Witness ==
  /\ pc = "done"
  /\ Len(har) = 2
  /\ verdicts[1] = "accept"
  /\ verdicts[2] # "accept"
  /\ \E k \in 1..Len(har[2].request.headers) :
       is_auth_like_header(ToLower(har[2].request.headers[k].name))
  /\ Len(requests) = 1

\* ------------------------------------------------------------------------
\* Properties of the target-domain set and the base-URL set
\* ------------------------------------------------------------------------
\* the hosts of the requests accepted so far
RequestHosts == {requests[k].domain : k \in 1..Len(requests)}

\* their scheme://host values
RequestOrigins ==
  {Val(UrlParse(requests[k].url)).scheme \o "://" \o requests[k].domain :
     k \in 1..Len(requests)}

\* the two sets are those of the accepted requests, and each is empty
\* exactly when no request has been accepted
SetsFollowRequests ==
  /\ target_domains = RequestHosts
  /\ base_urls = RequestOrigins
  /\ (target_domains = {}) <=> (requests = <<>>)
  /\ (base_urls = {}) <=> (requests = <<>>)
  /\ ~(target_domains = {} /\ base_urls # {})

\* C26: after any prefix of the capture the target-domain set is the set
\* of hosts of the requests accepted so far and the base-URL set is the set
\* of their scheme://host values; both sets only grow; each is empty if and
\* only if no request has been accepted, so the base-URL set is never
\* non-empty while the target-domain set is empty
C26_SetsFollowRequests ==
  /\ []SetsFollowRequests
  /\ [][/\ target_domains \subseteq target_domains'
        /\ base_urls \subseteq base_urls']_vars

\* three requests of two hosts have been accepted and the loop goes on
C26_Witness ==
  /\ pc = "loop"
  /\ Len(requests) = 3
  /\ Cardinality(target_domains) = 2
  /\ Cardinality(base_urls) = 2

\* ------------------------------------------------------------------------
\* Properties of authInfo against authHeaders and cookies
\* ------------------------------------------------------------------------
\* the request cookies of the accepted entries processed so far, as
\* <<entry, position>>
AcceptedCookies ==
  UNION {{<<j, k>> : k \in 1..Len(Val(har[j].request.cookies))} :
           j \in {i \in 1..Len(verdicts) :
                    /\ verdicts[i] = "accept"
                    /\ har[i].request.cookies # None}}

\* the value of the last occurrence of the cookie
LastCookieValue(c) ==
  LET X == {x \in AcceptedCookies :
              Val(har[x[1]].request.cookies)[x[2]].name = c}
      x == LastOf(X)
  IN  Val(har[x[1]].request.cookies)[x[2]].value

\* C27: after any sequence of exchanges, for every key k of authHeaders
\* authInfo holds under request_header_k the value authHeaders holds,
\* which is that of the last occurrence of the header among the accepted
\* exchanges; for every cookie c authInfo holds under request_cookie_c
\* the value cookies holds; every authInfo key starts with
\* request_header_, request_cookie_ or response_setcookie_
C27_AuthInfoMirrors ==
  pc \in {"loop", "done", "auth"} =>
    /\ \A k \in DOMAIN auth_headers :
         /\ ("request_header_" \o k) \in DOMAIN auth_info
         /\ auth_info["request_header_" \o k] = auth_headers[k]
         /\ Occurrences(k) # {}
         /\ auth_headers[k] = HeaderAt(LastOf(Occurrences(k))).value
    /\ \A c \in DOMAIN cookies :
         /\ ("request_cookie_" \o c) \in DOMAIN auth_info
         /\ auth_info["request_cookie_" \o c] = cookies[c]
         /\ cookies[c] = LastCookieValue(c)
    /\ \A key \in DOMAIN auth_info :
         \/ StartsWith(key, "request_header_")
         \/ StartsWith(key, "request_cookie_")
         \/ StartsWith(key, "response_setcookie_")

\* two accepted exchanges sent authorization with different values, one
\* sent cookies and one answered with Set-Cookie
C27_Witness ==
  /\ pc = "done"
  /\ "authorization" \in DOMAIN auth_headers
  /\ Cardinality({HeaderAt(x).value : x \in Occurrences("authorization")}) = 2
  /\ DOMAIN cookies # {}
  /\ \E key \in DOMAIN auth_info : StartsWith(key, "response_setcookie_")

\* ------------------------------------------------------------------------
\* Properties of detect_auth_method under the letter case of header names
\* ------------------------------------------------------------------------
\* no two header names of the map differ in letter case only
DistinctWhenLowered(m) ==
  \A a, b \in DOMAIN m : ToLower(a) = ToLower(b) => a = b

\* the map with every header name lowercased
LoweredNames(m) ==
  [n \in {ToLower(k) : k \in DOMAIN m} |->
     m[CHOOSE k \in DOMAIN m : ToLower(k) = n]]

\* C28: for every header map and cookie map detect_auth_method returns a
\* label it returns for the same map with every header name lowercased
C28_HeaderNameCaseIgnored ==
  (ret # None /\ call # None /\ DistinctWhenLowered(Val(call).headers)) =>
    Val(ret) \in guess_auth_method(LoweredNames(Val(call).headers),
                                   Val(call).cookies)

\* ------------------------------------------------------------------------
\* The workflow recorder: one global session behind a mutex
\* ------------------------------------------------------------------------
\* threads of the host process that call the recorder
RecThreads == {1, 2}

\* calls made in one behaviour, over all threads
MaxRecCalls == 4

\* RecordedStep; the timestamp is the clock's reading and enters no decision
RecordedStep(step_type, url, method, status, action, selector, value) ==
  [step_type |-> step_type, url |-> url, method |-> method,
   status |-> status, action |-> action, selector |-> selector,
   value |-> value]

\* recording_start on the guarded value; id is the uuid drawn by the call
recording_start_anew(session, id) ==
  [session |-> Some([id |-> id, ended |-> FALSE, steps |-> <<>>,
                     domains |-> <<>>]),
   result |-> <<"Ok", id>>]

recording_start(session, id) ==
  IF session # None
  THEN [session |-> session,
        result |-> <<"Err", "A recording session is already active">>]
  ELSE [session |-> Some([id |-> id, ended |-> FALSE, steps |-> <<>>,
                          domains |-> <<>>]),
        result |-> <<"Ok", id>>]

\* recording_stop: the session is taken out of the global before the file is
\* written; fs_ok is whether the directory and the file could be written
recording_stop(session, fs_ok) ==
  IF session = None
  THEN [session |-> None, result |-> <<"Ok", None>>]
  ELSE [session |-> None,
        result |-> IF fs_ok
                   THEN <<"Ok", Some([Val(session) EXCEPT !.ended = TRUE])>>
                   ELSE <<"Err", "Failed to save session">>]

recording_navigation(session, url) ==
  IF session = None THEN [session |-> None, result |-> <<"Ok">>]
  ELSE
    LET parsed == UrlParse(url)
        s      == Val(session)
        known(h) == \E i \in 1..Len(s.domains) : s.domains[i] = h
        domains ==
          IF parsed # None /\ Val(parsed).host # None
                           /\ ~known(Val(Val(parsed).host))
          THEN Append(s.domains, Val(Val(parsed).host))
          ELSE s.domains
        step == RecordedStep("navigation", Some(url), None, None, None,
                             None, None)
    IN  [session |-> Some([s EXCEPT !.domains = domains,
                                    !.steps = Append(@, step)]),
         result |-> <<"Ok">>]

recording_api_call(session, url, method, status) ==
  IF session = None THEN [session |-> None, result |-> <<"Ok">>]
  ELSE
    LET step == RecordedStep("api_call", Some(url), Some(method),
                             Some(status), None, None, None)
    IN  [session |-> Some([Val(session) EXCEPT !.steps = Append(@, step)]),
         result |-> <<"Ok">>]

recording_action(session, action, selector, value) ==
  IF session = None THEN [session |-> None, result |-> <<"Ok">>]
  ELSE
    LET step == RecordedStep("action", None, None, None, Some(action),
                             selector, value)
    IN  [session |-> Some([Val(session) EXCEPT !.steps = Append(@, step)]),
         result |-> <<"Ok">>]

recording_is_active(session) ==
  [session |-> session, result |-> <<"Ok", session # None>>]

\* the calls the threads make, with their arguments
RecCalls ==
  { <<"recording_start">>, <<"recording_stop">>, <<"recording_is_active">>,
    <<"recording_navigation", "https://app.example.com/home">>,
    <<"recording_navigation", "about:blank">>,
    <<"recording_api_call", "https://api.example.com/v1/orders", "GET", 200>>,
    <<"recording_action", "click", Some("#buy"), None>> }

\* the body of a call, run by the thread that holds the mutex
RecBodyOf(c, session, id, fs_ok) ==
  CASE c[1] = "recording_start"      -> recording_start(session, id)
    [] c[1] = "recording_stop"       -> recording_stop(session, fs_ok)
    [] c[1] = "recording_is_active"  -> recording_is_active(session)
    [] c[1] = "recording_navigation" -> recording_navigation(session, c[2])
    [] c[1] = "recording_api_call"   ->
         recording_api_call(session, c[2], c[3], c[4])
    [] c[1] = "recording_action"     ->
         recording_action(session, c[2], c[3], c[4])

RecIdle == [at |-> "idle", op |-> <<>>, result |-> <<>>]

\* a thread enters one of the exported functions
RecCall(t) ==
  /\ recorder # None
  /\ recorder.threads[t].at = "idle"
  /\ recorder.calls < MaxRecCalls
  /\ \E c \in RecCalls :
       recorder' =
         [recorder EXCEPT !.threads[t] = [at |-> "lock", op |-> c,
                                          result |-> <<>>],
                          !.calls = @ + 1]
  /\ UNCHANGED <<harVars, call, ret, vaultVars, parked, workflow>>

\* CURRENT_SESSION.lock(): the thread waits until the mutex is free
RecLock(t) ==
  /\ recorder # None
  /\ recorder.threads[t].at = "lock"
  /\ recorder.holder = None
  /\ recorder' = [recorder EXCEPT !.threads[t].at = "held",
                                  !.holder = Some(t)]
  /\ UNCHANGED <<harVars, call, ret, vaultVars, parked, workflow>>

\* the rest of the function, up to the return that drops the guard
RecBody(t) ==
  /\ recorder # None
  /\ recorder.threads[t].at = "held"
  /\ \E fs_ok \in BOOLEAN :
       LET c   == recorder.threads[t].op
           id  == recorder.ids + 1
           out == RecBodyOf(c, recorder.session, id, fs_ok)
       IN  recorder' =
             [recorder EXCEPT
                !.session = out.session,
                !.holder = None,
                !.ids = IF c[1] = "recording_start"
                           /\ out.result[1] = "Ok" THEN id ELSE @,
                !.threads[t] = [at |-> "idle", op |-> c,
                                result |-> out.result]]
  /\ UNCHANGED <<harVars, call, ret, vaultVars, parked, workflow>>

InitRec ==
  /\ har = <<>> /\ seed_url = None /\ pc = "idle" /\ idx = 1
  /\ requests = <<>> /\ auth_headers = EmptyMap /\ cookies = EmptyMap
  /\ auth_info = EmptyMap /\ base_urls = {} /\ target_domains = {}
  /\ verdicts = <<>> /\ api = None /\ auth = None /\ prev = None
  /\ call = None /\ ret = None /\ vault = None /\ deposited = EmptyMap
  /\ parked = <<>> /\ workflow = None
  /\ recorder = [session |-> None, holder |-> None, calls |-> 0, ids |-> 0,
                 threads |-> [t \in RecThreads |-> RecIdle]]

NextRec == \E t \in RecThreads : RecCall(t) \/ RecLock(t) \/ RecBody(t)

SpecRec == InitRec /\ [][NextRec]_vars

\* ------------------------------------------------------------------------
\* One recording session at a time
\* ------------------------------------------------------------------------
\* thread t returns from the call it made
Returns(t) ==
  /\ recorder.threads[t].at = "held"
  /\ recorder'.threads[t].at = "idle"

StepTypeOf(c) ==
  CASE c[1] = "recording_navigation" -> "navigation"
    [] c[1] = "recording_api_call"   -> "api_call"
    [] c[1] = "recording_action"     -> "action"
    [] OTHER                         -> ""

\* what one returning call may have done to the global session
RecorderContract(t) ==
  LET c      == recorder.threads[t].op
      before == recorder.session
      after  == recorder'.session
      result == recorder'.threads[t].result
  IN  /\ recorder.holder = Some(t)
      /\ \A u \in RecThreads \ {t} : recorder.threads[u].at # "held"
      /\ c[1] = "recording_start" /\ before # None =>
           result[1] = "Err" /\ after = before
      /\ c[1] = "recording_start" /\ before = None =>
           /\ result[1] = "Ok" /\ after # None
           /\ Val(after).id = result[2] /\ Val(after).id > recorder.ids
           /\ Val(after).steps = <<>> /\ Val(after).domains = <<>>
      /\ StepTypeOf(c) # "" /\ before = None => after = None
      /\ StepTypeOf(c) # "" /\ before # None =>
           /\ after # None /\ Val(after).id = Val(before).id
           /\ Len(Val(after).steps) = Len(Val(before).steps) + 1
           /\ SubSeq(Val(after).steps, 1, Len(Val(before).steps))
                = Val(before).steps
           /\ Val(after).steps[Len(Val(after).steps)].step_type
                = StepTypeOf(c)
      /\ c[1] = "recording_stop" => after = None
      /\ c[1] = "recording_is_active" =>
           after = before /\ result = <<"Ok", before # None>>

\* C29: whatever the interleaving of the threads' calls, one call at a time
\* works on the single global session: recording_start on an active session
\* returns an error and leaves it as it was, and on no session it installs a
\* session with a new id and no steps; recording_navigation,
\* recording_api_call and recording_action append exactly one step of their
\* type at the end of the active session's steps and do nothing when none is
\* active; recording_stop leaves no session, so recording_is_active then
\* answers false and the next recording_start succeeds.
C29_OneSessionAtATime ==
  [][\A t \in RecThreads : Returns(t) => RecorderContract(t)]_vars

\* a second session has been started after the first one was stopped, and a
\* recording_start on an active session was turned down
C29_Witness ==
  /\ recorder # None
  /\ recorder.ids = 2
  /\ recorder.session # None
  /\ \E t \in RecThreads :
       /\ recorder.threads[t].at = "idle"
       /\ Len(recorder.threads[t].op) = 1
       /\ recorder.threads[t].op[1] = "recording_start"
       /\ recorder.threads[t].result[1] = "Err"

\* ------------------------------------------------------------------------
\* Workflow execution (workflow/executor.rs)
\* ------------------------------------------------------------------------
\* steps of the workflows explored
MaxSteps == 3

RECURSIVE ReplaceAll(_, _, _)
\* str::replace: every non-overlapping occurrence, from the left
ReplaceAll(s, p, r) ==
  LET k == Find(s, p) IN
    IF p = "" \/ k = 0 THEN s
    ELSE Sub(s, 1, k - 1) \o r
           \o ReplaceAll(Sub(s, k + Len(p), Len(s)), p, r)

RECURSIVE substitute_in_order(_, _, _, _)
\* substitute_variables after the first k keys of one enumeration of the map
substitute_in_order(template, variables, order, k) ==
  IF k = 0 THEN template
  ELSE LET key   == order[k]
           value == variables[key]
           sofar == substitute_in_order(template, variables, order, k - 1)
       IN  ReplaceAll(ReplaceAll(sofar, "${" \o key \o "}", value),
                      "$" \o key, value)

\* substitute_variables: one text for each order the HashMap may be walked in
substitute_variables(template, variables) ==
  { substitute_in_order(template, variables, order, Len(order)) :
      order \in Orders(DOMAIN variables) }

RECURSIVE IntText(_)
\* i64::to_string of a non-negative number
IntText(n) ==
  LET digit(d) == Sub("0123456789", d + 1, d + 1) IN
    IF n < 10 THEN digit(n) ELSE IntText(n \div 10) \o digit(n % 10)

\* workflow_extract_variables for one pattern on a body whose members are
\* strings, numbers or null: the walk stops at the first part that is not a
\* member and keeps the value reached so far
workflow_extract_variables(response_body, pattern) ==
  LET json  == JsonParse(response_body)
      parts == Split(pattern, ".")
  IN  IF json = None \/ parts[1] \notin DOMAIN Val(json) THEN EmptyMap
      ELSE LET current == Val(json)[parts[1]] IN
             IF current.kind = "string" THEN pattern :> current.text
             ELSE IF current.kind = "number" THEN pattern :> IntText(current.int)
             ELSE EmptyMap

\* the regular expressions of the workflows explored: the text of group 1,
\* or of the whole match without a group 1; None when the pattern does not
\* compile or does not match
regex_captures(regex_pattern, text) ==
  CASE regex_pattern = "^(.)" ->
         IF text = "" THEN None ELSE Some(Sub(text, 1, 1))
    [] regex_pattern = "t" ->
         IF Contains(text, "t") THEN Some("t") ELSE None
    [] OTHER -> None

VariableExtraction(name, source, json_path, regex) ==
  [name |-> name, source |-> source, json_path |-> json_path,
   regex |-> regex]

\* WorkflowStep; method, headers, body, selector and timeout_ms shape the
\* request and the pause only
WorkflowStep(id, step_type, url, action, value, extractions) ==
  [id |-> id, step_type |-> step_type, url |-> url, action |-> action,
   value |-> value, extractions |-> extractions]

StepResult(step_id, success, status, response_body, extracted, error) ==
  [step_id |-> step_id, success |-> success, status |-> status,
   response_body |-> response_body, extracted_variables |-> extracted,
   error |-> error]

RECURSIVE api_extractions(_, _, _)
\* step_vars after the first k extractions of an api_call step
api_extractions(extractions, response_body, k) ==
  IF k = 0 THEN EmptyMap
  ELSE LET step_vars == api_extractions(extractions, response_body, k - 1)
           ext  == extractions[k]
       IN  IF ext.json_path = None THEN step_vars
           ELSE LET json_path == Val(ext.json_path)
                    extracted ==
                      workflow_extract_variables(response_body, json_path)
                IN  IF json_path \in DOMAIN extracted
                    THEN MapPut(step_vars, ext.name, extracted[json_path])
                    ELSE step_vars

\* execute_api_call; answer is what building the client and sending the
\* request gave
execute_api_call(step, variables, answer) ==
  IF step.url = None
  THEN [result |-> StepResult(step.id, FALSE, None, None, None,
                              Some("No URL specified")),
        variables |-> variables]
  ELSE IF answer[1] = "client"
  THEN [result |-> StepResult(step.id, FALSE, None, None, None,
                              Some("Failed to create client")),
        variables |-> variables]
  ELSE IF answer[1] = "send"
  THEN [result |-> StepResult(step.id, FALSE, None, None, None,
                              Some("error sending request")),
        variables |-> variables]
  ELSE
    LET status  == answer[2]
        rbody   == answer[3]
        success == status >= 200 /\ status < 400
        step_vars == IF step.extractions = None THEN EmptyMap
                   ELSE api_extractions(Val(step.extractions), rbody,
                                        Len(Val(step.extractions)))
    IN  [result |->
           StepResult(step.id, success, Some(status), Some(rbody),
                      IF step_vars = EmptyMap THEN None ELSE Some(step_vars),
                      IF success THEN None
                      ELSE Some("HTTP " \o IntText(status))),
         variables |-> step_vars @@ variables]

\* execute_browser_action and execute_navigate; answer is what the browser
\* call gave
execute_browser(step, missing, failed, answer) ==
  IF missing # None
  THEN StepResult(step.id, FALSE, None, None, None, missing)
  ELSE IF answer[1] = "Err"
  THEN StepResult(step.id, FALSE, None, None, None, Some("browser error"))
  ELSE StepResult(step.id, answer[2], None, None, None,
                  IF answer[2] THEN None ELSE Some(failed))

execute_browser_action(step, answer) ==
  execute_browser(step,
                  IF step.action = None THEN Some("No action specified")
                  ELSE None,
                  "Action failed", answer)

execute_navigate(step, answer) ==
  execute_browser(step,
                  IF step.url = None THEN Some("No URL specified") ELSE None,
                  "Navigation failed", answer)

execute_wait(step) == StepResult(step.id, TRUE, None, None, None, None)

RECURSIVE extract_loop(_, _, _)
\* extracted and variables after the first k extractions of an extract step
extract_loop(extractions, variables, k) ==
  IF k = 0 THEN [extracted |-> EmptyMap, variables |-> variables]
  ELSE LET before == extract_loop(extractions, variables, k - 1)
           ext    == extractions[k]
           m      == IF ext.regex # None /\ ext.source \in DOMAIN before.variables
                     THEN regex_captures(Val(ext.regex),
                                         before.variables[ext.source])
                     ELSE None
       IN  IF m = None THEN before
           ELSE [extracted |-> MapPut(before.extracted, ext.name, Val(m)),
                 variables |-> MapPut(before.variables, ext.name, Val(m))]

execute_extract(step, variables) ==
  LET after == IF step.extractions = None
               THEN [extracted |-> EmptyMap, variables |-> variables]
               ELSE extract_loop(Val(step.extractions), variables,
                                 Len(Val(step.extractions)))
  IN  [result |-> StepResult(step.id, TRUE, None, None,
                             IF after.extracted = EmptyMap THEN None
                             ELSE Some(after.extracted),
                             None),
       variables |-> after.variables]

\* execute_step: the StepResult and the variables it leaves
execute_step(step, variables, answer) ==
  CASE step.step_type = "api_call" ->
         execute_api_call(step, variables, answer)
    [] step.step_type = "browser_action" ->
         [result |-> execute_browser_action(step, answer),
          variables |-> variables]
    [] step.step_type = "navigate" ->
         [result |-> execute_navigate(step, answer), variables |-> variables]
    [] step.step_type = "wait" ->
         [result |-> execute_wait(step), variables |-> variables]
    [] step.step_type = "extract" -> execute_extract(step, variables)
    [] OTHER ->
         [result |-> StepResult(step.id, FALSE, None, None, None,
                                Some("Unknown step type: " \o step.step_type)),
          variables |-> variables]

\* what the network or the browser may answer to a step
Answers(step) ==
  CASE step.step_type = "api_call" ->
         { <<"client">>, <<"send">>, <<"Ok", 200, BODY_TOKEN>>,
           <<"Ok", 200, BODY_HTML>>, <<"Ok", 500, BODY_ACCESS>> }
    [] step.step_type \in {"browser_action", "navigate"} ->
         { <<"Err">>, <<"Ok", TRUE>>, <<"Ok", FALSE>> }
    [] OTHER -> { <<"none">> }

\* the text a step sends out: the URL requested or opened, the text typed
Template(step) ==
  CASE step.step_type \in {"api_call", "navigate"} -> step.url
    [] step.step_type = "browser_action" /\ step.action # None -> step.value
    [] OTHER -> None

\* the steps the workflows explored are made of
WfSteps ==
  { WorkflowStep("login", "api_call", Some("https://api.example.com/login"),
                 None, None,
                 Some(<<VariableExtraction("token", "response_body",
                                           Some("token"), None),
                        VariableExtraction("ttl", "response_body",
                                           Some("expires_in"), None)>>)),
    WorkflowStep("items", "api_call",
                 Some("https://api.example.com/items?t=${token}&i=$initial"),
                 None, None, None),
    WorkflowStep("nourl", "api_call", None, None, None, None),
    WorkflowStep("type", "browser_action", None, Some("type"),
                 Some("$token"), None),
    WorkflowStep("open", "navigate", Some("https://app.example.com/"),
                 None, None, None),
    WorkflowStep("pause", "wait", None, None, None, None),
    WorkflowStep("first", "extract", None, None, None,
                 Some(<<VariableExtraction("initial", "token", None,
                                           Some("^(.)"))>>)),
    WorkflowStep("fetch", "download", None, None, None, None) }

WfSkills == UNION { [1..n -> WfSteps] : n \in 0..MaxSteps }

WfInputs == { None, Some("token" :> "t0") }

\* workflow_execute up to the loop
WfStart(steps, inputs) ==
  workflow =
    [steps |-> steps, at |-> "loop", i |-> 1,
     variables |-> IF inputs = None THEN EmptyMap ELSE Val(inputs),
     step_results |-> <<>>, steps_completed |-> 0, overall_success |-> TRUE,
     error |-> None, handed |-> <<>>, sent |-> <<>>, result |-> None]

\* one pass of the loop when a failing step does not end it
WfStepOn ==
  /\ workflow # None
  /\ workflow.at = "loop"
  /\ workflow.i <= Len(workflow.steps)
  /\ LET step == workflow.steps[workflow.i] IN
       \E answer \in Answers(step) :
         \E text \in IF Template(step) = None THEN {None}
                     ELSE { Some(t) : t \in substitute_variables(
                                Val(Template(step)), workflow.variables) } :
           LET out == execute_step(step, workflow.variables, answer) IN
             workflow' =
               [workflow EXCEPT
                  !.variables = out.variables,
                  !.handed = Append(@, workflow.variables),
                  !.sent = Append(@, text),
                  !.step_results = Append(@, out.result),
                  !.i = @ + 1,
                  !.overall_success = @ /\ out.result.success,
                  !.error = IF out.result.success THEN @
                            ELSE out.result.error,
                  !.steps_completed =
                     IF out.result.success THEN @ + 1 ELSE @]
  /\ UNCHANGED <<harVars, call, ret, vaultVars, parked, recorder>>

\* one pass of the loop of workflow_execute: handed and sent keep, for each
\* step run, the variables it was given and the text it sent out
WfStep ==
  /\ workflow # None
  /\ workflow.at = "loop"
  /\ workflow.i <= Len(workflow.steps)
  /\ LET step == workflow.steps[workflow.i] IN
       \E answer \in Answers(step) :
         \E text \in IF Template(step) = None THEN {None}
                     ELSE { Some(t) : t \in substitute_variables(
                                Val(Template(step)), workflow.variables) } :
           LET out == execute_step(step, workflow.variables, answer) IN
             workflow' =
               IF ~out.result.success
               THEN [workflow EXCEPT
                       !.variables = out.variables,
                       !.handed = Append(@, workflow.variables),
                       !.sent = Append(@, text),
                       !.overall_success = FALSE,
                       !.error = out.result.error,
                       !.step_results = Append(@, out.result),
                       !.at = "break"]
               ELSE [workflow EXCEPT
                       !.variables = out.variables,
                       !.handed = Append(@, workflow.variables),
                       !.sent = Append(@, text),
                       !.steps_completed = @ + 1,
                       !.step_results = Append(@, out.result),
                       !.i = @ + 1]
  /\ UNCHANGED <<harVars, call, ret, vaultVars, parked, recorder>>

\* the WorkflowResult returned after the loop
WfReturn ==
  /\ workflow # None
  /\ \/ workflow.at = "break"
     \/ workflow.at = "loop" /\ workflow.i > Len(workflow.steps)
  /\ workflow' =
       [workflow EXCEPT
          !.at = "done",
          !.result = Some([success |-> workflow.overall_success,
                           steps_completed |-> workflow.steps_completed,
                           steps_total |-> Len(workflow.steps),
                           step_results |-> workflow.step_results,
                           final_variables |-> workflow.variables,
                           error |-> workflow.error])]
  /\ UNCHANGED <<harVars, call, ret, vaultVars, parked, recorder>>

InitWf ==
  /\ har = <<>> /\ seed_url = None /\ pc = "idle" /\ idx = 1
  /\ requests = <<>> /\ auth_headers = EmptyMap /\ cookies = EmptyMap
  /\ auth_info = EmptyMap /\ base_urls = {} /\ target_domains = {}
  /\ verdicts = <<>> /\ api = None /\ auth = None /\ prev = None
  /\ call = None /\ ret = None /\ vault = None /\ deposited = EmptyMap
  /\ parked = <<>> /\ recorder = None
  /\ \E steps \in WfSkills, inputs \in WfInputs : WfStart(steps, inputs)

NextWf == WfStep \/ WfReturn

SpecWf == InitWf /\ [][NextWf]_vars

\* ------------------------------------------------------------------------
\* workflow_execute stops at the first failing step
\* ------------------------------------------------------------------------
\* the value the steps before step k last extracted under a name, None when
\* none of them extracted it
LastExtracted(step_results, k, name) ==
  LET from == { j \in 1..(k - 1) :
                  /\ step_results[j].extracted_variables # None
                  /\ name \in DOMAIN Val(step_results[j].extracted_variables) }
  IN  IF from = {} THEN None
      ELSE LET j == CHOOSE x \in from : \A y \in from : y <= x
           IN  Some(Val(step_results[j].extracted_variables)[name])

ExtractedNames(step_results) ==
  UNION { DOMAIN Val(step_results[j].extracted_variables) :
            j \in { x \in 1..Len(step_results) :
                      step_results[x].extracted_variables # None } }

\* the returned WorkflowResult r of a run over steps
StopsAtFirstFailure(w) ==
  LET r == Val(w.result)
      n == Len(r.step_results)
      good == { j \in 1..n : r.step_results[j].success }
  IN  /\ r.steps_total = Len(w.steps)
      /\ n <= r.steps_total
      /\ Len(w.handed) = n
      /\ \A j \in 1..n : r.step_results[j].step_id = w.steps[j].id
      /\ \A j \in 1..(n - 1) : j \in good
      /\ n < r.steps_total => n > 0 /\ n \notin good
      /\ r.steps_completed = Cardinality(good)
      /\ r.steps_completed <= r.steps_total
      /\ r.success <=> r.steps_completed = r.steps_total
      /\ r.error # None <=> ~r.success

\* every step was handed the variables the steps before it extracted
EarlierVariablesVisible(w) ==
  LET r == Val(w.result) IN
    \A k \in 1..Len(r.step_results) :
      \A name \in ExtractedNames(r.step_results) :
        LET last == LastExtracted(r.step_results, k, name) IN
          last # None =>
            /\ name \in DOMAIN w.handed[k]
            /\ w.handed[k][name] = Val(last)

\* C30: workflow_execute runs the steps in order and stops at the first one
\* that fails: step_results holds the successful steps followed by the
\* failing one and no later step is run, steps_completed counts the
\* successful steps and is at most steps_total, success holds exactly when
\* steps_completed = steps_total, error is set exactly when success is
\* false, and each step is handed the variables the earlier steps extracted.
C30_StopsAtFirstFailure ==
  (workflow # None /\ workflow.at = "done") =>
    StopsAtFirstFailure(workflow) /\ EarlierVariablesVisible(workflow)

\* a run of three steps whose first step extracted a variable, whose second
\* step sent it out and whose last step failed
C30_Witness ==
  /\ workflow # None /\ workflow.at = "done"
  /\ Len(workflow.steps) = 3
  /\ Val(workflow.result).steps_completed = 2
  /\ workflow.step_results[1].extracted_variables # None
  /\ workflow.steps[2].id = "items"
  /\ workflow.sent[2] = Some("https://api.example.com/items?t=t&i=$initial")
  /\ ~workflow.step_results[3].success

====
